---- MODULE Spec2Model ----
(***************************************************************************)
(* The TYP codec of typtui: internal/parser (Parser.Parse and its section  *)
(* parsers, the XPM sub-record parser), the writer (WriteFile), and the     *)
(* editor that loads, changes and saves a document (internal/tui).         *)
(*                                                                         *)
(* A Go string is a sequence of one-character strings; a file is the       *)
(* sequence of its physical lines, as bufio.Scanner yields them.           *)
(***************************************************************************)
EXTENDS Integers, Sequences, FiniteSets, TLC

VARIABLES input, disk, p, doc, written, saved, reloaded, model, tea

vars == <<input, disk, p, doc, written, saved, reloaded, model, tea>>

(***************************************************************************)
(* strings, strconv                                                        *)
(***************************************************************************)

Min(S) == CHOOSE x \in S : \A y \in S : x <= y
Max(S) == CHOOSE x \in S : \A y \in S : x >= y

\* unicode.IsSpace on the characters lines are built from
IsSpace(c) == c \in {" ", "\t"}

\* strings.TrimSpace
TrimSpace(s) ==
    LET keep == {i \in 1..Len(s) : ~IsSpace(s[i])}
    IN  IF keep = {} THEN <<>> ELSE SubSeq(s, Min(keep), Max(keep))

\* strings.Trim(s, cutset), cutset given as a set of characters
Trim(s, cutset) ==
    LET keep == {i \in 1..Len(s) : s[i] \notin cutset}
    IN  IF keep = {} THEN <<>> ELSE SubSeq(s, Min(keep), Max(keep))

\* strings.HasPrefix
HasPrefix(s, prefix) ==
    Len(s) >= Len(prefix) /\ SubSeq(s, 1, Len(prefix)) = prefix

\* strings.Index(s, sub): the 1-based place of the first occurrence, 0 for Go's -1
Index(s, sub) ==
    LET at == {i \in 1..(Len(s) - Len(sub) + 1) : SubSeq(s, i, i + Len(sub) - 1) = sub}
    IN  IF at = {} THEN 0 ELSE Min(at)

\* strings.Contains
Contains(s, sub) == Index(s, sub) # 0

\* strings.SplitN(s, sep, 2)
SplitN2(s, sep) ==
    LET i == Index(s, sep)
    IN  IF i = 0 THEN <<s>>
        ELSE <<SubSeq(s, 1, i - 1), SubSeq(s, i + Len(sep), Len(s))>>

\* strings.Fields: the maximal runs of non-space characters
RECURSIVE Fields(_)
Fields(s) ==
    LET t == TrimSpace(s)
        sp == {i \in 1..Len(t) : IsSpace(t[i])}
    IN  IF t = <<>> THEN <<>>
        ELSE IF sp = {} THEN <<t>>
        ELSE <<SubSeq(t, 1, Min(sp) - 1)>> \o Fields(SubSeq(t, Min(sp), Len(t)))

\* strings.ToUpper, on the letters of the model
LowerCase == <<"a", "b", "c", "d", "e", "j", "k", "n", "q", "s", "x", "y">>
UpperCase == <<"A", "B", "C", "D", "E", "J", "K", "N", "Q", "S", "X", "Y">>

ToUpper(s) ==
    [i \in 1..Len(s) |->
        IF \E k \in 1..Len(LowerCase) : LowerCase[k] = s[i]
        THEN UpperCase[CHOOSE k \in 1..Len(LowerCase) : LowerCase[k] = s[i]]
        ELSE s[i]]

Digits == <<"0", "1", "2", "3", "4", "5", "6", "7", "8", "9">>

IsDigit(c) == \E i \in 1..10 : Digits[i] = c

DigitVal(c) == (CHOOSE i \in 1..10 : Digits[i] = c) - 1

RECURSIVE DecVal(_)
DecVal(ds) ==
    IF ds = <<>> THEN 0
    ELSE 10 * DecVal(SubSeq(ds, 1, Len(ds) - 1)) + DigitVal(ds[Len(ds)])

\* strconv.Atoi: an optional sign, then one or more decimal digits
\* (the lines of the model are too short for the range error)
Atoi(s) ==
    LET signed == s # <<>> /\ s[1] \in {"+", "-"}
        ds     == IF signed THEN Tail(s) ELSE s
        ok     == ds # <<>> /\ \A i \in 1..Len(ds) : IsDigit(ds[i])
    IN  [ok  |-> ok,
         val |-> IF ~ok THEN 0
                 ELSE IF signed /\ s[1] = "-" THEN 0 - DecVal(ds) ELSE DecVal(ds)]

RECURSIVE FormatNat(_)
FormatNat(n) ==
    IF n < 10 THEN <<Digits[n + 1]>>
    ELSE FormatNat(n \div 10) \o <<Digits[(n % 10) + 1]>>

\* fmt.Sprintf("%d", n)
FormatInt(n) == IF n < 0 THEN <<"-">> \o FormatNat(0 - n) ELSE FormatNat(n)

(***************************************************************************)
(* The literals of parser.go and of the writer                             *)
(***************************************************************************)

sId          == <<"_","i","d">>
sPoint       == <<"_","p","o","i","n","t">>
sLine        == <<"_","l","i","n","e">>
sPolygon     == <<"_","p","o","l","y","g","o","n">>
sDrawOrder   == <<"_","d","r","a","w","O","r","d","e","r">>
sEnd         == <<"e","n","d">>
EndLine      == <<"[","e","n","d","]">>
kCodePage    == <<"C","o","d","e","P","a","g","e">>
kFID         == <<"F","I","D">>
kProductCode == <<"P","r","o","d","u","c","t","C","o","d","e">>
kMapID       == <<"M","a","p","I","D">>
kType        == <<"T","y","p","e">>
kSubType     == <<"S","u","b","T","y","p","e">>
kString      == <<"S","t","r","i","n","g">>
kString1     == <<"S","t","r","i","n","g","1">>
kString2     == <<"S","t","r","i","n","g","2">>
kString3     == <<"S","t","r","i","n","g","3">>
kString4     == <<"S","t","r","i","n","g","4">>
kDayXpm      == <<"D","a","y","X","p","m">>
kNightXpm    == <<"N","i","g","h","t","X","p","m">>
kFontStyle   == <<"F","o","n","t","S","t","y","l","e">>
kLineWidth   == <<"L","i","n","e","W","i","d","t","h">>
kBorderWidth == <<"B","o","r","d","e","r","W","i","d","t","h">>
kLineStyle   == <<"L","i","n","e","S","t","y","l","e">>
kXpm         == <<"X","p","m">>
kUseOrientation == <<"U","s","e","O","r","i","e","n","t","a","t","i","o","n">>
kExtendedLabels == <<"E","x","t","e","n","d","e","d","L","a","b","e","l","s">>
cSep         == <<" ","c"," ">>
lang0x04     == <<"0","x","0","4">>
hexNone      == <<"n","o","n","e">>
hexTransparent == <<"t","r","a","n","s","p","a","r","e","n","t">>

\* the label keys without String4
StringKeysButString4 == {kString, kString1, kString2, kString3}

\* case "String", "String1", "String2", "String3", "String4":
StringKeys == {kString, kString1, kString2, kString3, kString4}

(***************************************************************************)
(* types.go.  A Go map is a function; a nil pointer is <<>> and a pointer  *)
(* to v is <<v>>.                                                          *)
(***************************************************************************)

EmptyMap == [k \in {} |-> <<>>]

\* a map write that keeps the value of a key already present
MapPutIfAbsent(m, k, v) == [x \in (DOMAIN m) \cup {k} |-> IF x \in DOMAIN m THEN m[x] ELSE v]

\* m[k] = v on a Go map
MapPut(m, k, v) == [x \in (DOMAIN m) \cup {k} |-> IF x = k THEN v ELSE m[x]]

Header == [CodePage |-> 0, FID |-> 0, ProductCode |-> 0, MapID |-> 0]

PointType == [Type |-> <<>>, SubType |-> <<>>, Labels |-> EmptyMap,
              DayXpm |-> <<>>, NightXpm |-> <<>>, DayColors |-> <<>>, NightColors |-> <<>>,
              FontStyle |-> <<>>]

LineType == [Type |-> <<>>, Labels |-> EmptyMap, LineWidth |-> 0, BorderWidth |-> 0,
             DayXpm |-> <<>>, NightXpm |-> <<>>, UseOrientation |-> FALSE,
             LineStyle |-> <<>>]

PolygonType == [Type |-> <<>>, Labels |-> EmptyMap, DayXpm |-> <<>>, NightXpm |-> <<>>,
                FontStyle |-> <<>>, ExtendedLabels |-> FALSE]

XPMIcon == [Width |-> 0, Height |-> 0, Colors |-> 0, CharsPerPixel |-> 0,
            Data |-> <<>>, Palette |-> EmptyMap]

DrawOrder == [Points |-> <<>>, Lines |-> <<>>, Polygons |-> <<>>]

TYPFile == [Header |-> Header, Points |-> <<>>, Lines |-> <<>>, Polygons |-> <<>>,
            DrawOrder |-> DrawOrder, FilePath |-> "", Modified |-> FALSE]

\* the path of the file that is parsed, and of the temporary file of the writer's tests
pathInput == "input.typ"
pathTemp == "test.typ"

\* the nil error
NoError == [kind |-> "nil", Line |-> 0, Message |-> "", Key |-> <<>>, Value |-> <<>>]

\* a ParseError that does not record the line
ParseErrorNoLine(line, message, key, value) ==
    [kind |-> "ParseError", Line |-> 0, Message |-> message, Key |-> key, Value |-> value]

\* &ParseError{Line: line, Message: message}; Key and Value are the arguments of
\* fmt.Sprintf("invalid value for %s: %s", key, value)
ParseError(line, message, key, value) ==
    [kind |-> "ParseError", Line |-> line, Message |-> message, Key |-> key, Value |-> value]

\* the *strconv.NumError of a failed Atoi: it carries the text, and no line
NumError(value) ==
    [kind |-> "NumError", Line |-> 0, Message |-> "invalid syntax", Key |-> <<>>, Value |-> value]

\* fmt.Errorf("failed to write file: %w", err)
WriteError ==
    [kind |-> "WriteError", Line |-> 0, Message |-> "failed to write file: %w",
     Key |-> <<>>, Value |-> <<>>]

\* fmt.Errorf("error reading file: %w", err)
ReadError ==
    [kind |-> "ReadError", Line |-> 0, Message |-> "error reading file", Key |-> <<>>, Value |-> <<>>]

(***************************************************************************)
(* parser.go.  p is the Parser with the locals of the call of Parse that   *)
(* is running: pc names the function whose loop is about to call           *)
(* scanner.Scan(), pos is the scanner's place in the file.                 *)
(***************************************************************************)

NewParserAt(filePath) ==
    [pc |-> "Parse", pos |-> 0, lineNum |-> 0,
     typFile |-> [TYPFile EXCEPT !.FilePath = filePath],
     point |-> PointType, line |-> LineType, polygon |-> PolygonType,
     xpm |-> XPMIcon, linesRead |-> 0, totalLinesToRead |-> 0,
     caller |-> "", field |-> <<>>, scanErr |-> FALSE,
     ret |-> [typFile |-> <<>>, err |-> NoError]]

\* the parser of the input file
NewParser == NewParserAt(pathInput)

\* p.scanner.Scan() and p.scanner.Text() on a file of these lines; fail says that
\* the read fails here (scanner.Err() is not nil from then on, and Scan stays false)
Scan(q, text, fail) ==
    IF fail \/ q.scanErr THEN [ok |-> FALSE, err |-> TRUE, text |-> <<>>]
    ELSE IF q.pos < Len(text) THEN [ok |-> TRUE, err |-> FALSE, text |-> text[q.pos + 1]]
    ELSE [ok |-> FALSE, err |-> FALSE, text |-> <<>>]

\* the scanner after Scan returned s
Scanned(q, s) == IF s.err THEN [q EXCEPT !.scanErr = TRUE] ELSE q

\* a Scan loop whose body forgets p.lineNum++
AdvanceNoCount(q) == [q EXCEPT !.pos = @ + 1]

\* a scanner that yields the line it yielded before
AdvanceNot(q) == q

\* p.lineNum++ after a successful Scan
Advance(q) == [q EXCEPT !.pos = @ + 1, !.lineNum = @ + 1]

\* a Fail that hands back the document built so far together with the error
FailPartial(q, err) == [q EXCEPT !.pc = "done", !.ret = [typFile |-> <<q.typFile>>, err |-> err]]

\* return nil, err
Fail(q, err) == [q EXCEPT !.pc = "done", !.ret = [typFile |-> <<>>, err |-> err]]

\* return typFile, nil
Succeed(q) == [q EXCEPT !.pc = "done", !.ret = [typFile |-> <<q.typFile>>, err |-> NoError]]

\* a cleanLine for which only ; starts a comment
cleanLineSemicolon(line) ==
    LET i  == Index(line, <<";">>)
        l1 == IF i > 0 THEN SubSeq(line, 1, i - 1) ELSE line
    IN  TrimSpace(l1)

\* cleanLine removes comments and trims whitespace
cleanLine(line) ==
    LET i  == Index(line, <<";">>)
        l1 == IF i > 0 THEN SubSeq(line, 1, i - 1) ELSE line
        j  == Index(l1, <<"#">>)
        l2 == IF j > 0 THEN SubSeq(l1, 1, j - 1) ELSE l1
    IN  TrimSpace(l2)

\* a parseString that takes a value without a comma for a code
parseStringNoComma(value) ==
    LET parts == SplitN2(value, <<",">>)
    IN  IF Len(parts) # 2 THEN [langCode |-> TrimSpace(value), label |-> <<>>]
        ELSE [langCode |-> TrimSpace(parts[1]), label |-> TrimSpace(parts[2])]

\* a parseString that returns the label for the code and the code for the label
parseStringSwapped(value) ==
    LET parts == SplitN2(value, <<",">>)
    IN  IF Len(parts) # 2 THEN [langCode |-> <<>>, label |-> <<>>]
        ELSE [langCode |-> TrimSpace(parts[2]), label |-> TrimSpace(parts[1])]

\* parseString parses a string definition like "0x04,Bank"
parseString(value) ==
    LET parts == SplitN2(value, <<",">>)
    IN  IF Len(parts) # 2 THEN [langCode |-> <<>>, label |-> <<>>]
        ELSE [langCode |-> TrimSpace(parts[1]), label |-> TrimSpace(parts[2])]

\* the labels after a String, String1..String4 line with this value
putLabel(labels, value) ==
    LET s == parseString(value)
    IN  IF s.langCode # <<>> THEN MapPut(labels, s.langCode, s.label) ELSE labels

\* a parseXPMHeader that takes the first number for the height and the second for
\* the width
parseXPMHeaderSwapped(value, lineNum) ==
    LET parts == Fields(Trim(value, {"\""}))
    IN  IF Len(parts) < 4
        THEN [err |-> ParseError(lineNum, "invalid XPM format", <<>>, <<>>), xpm |-> XPMIcon]
        ELSE LET w == Atoi(parts[1])
                 h == Atoi(parts[2])
                 c == Atoi(parts[3])
                 n == Atoi(parts[4])
             IN  IF ~w.ok THEN [err |-> NumError(parts[1]), xpm |-> XPMIcon]
                 ELSE IF ~h.ok THEN [err |-> NumError(parts[2]), xpm |-> XPMIcon]
                 ELSE IF ~c.ok THEN [err |-> NumError(parts[3]), xpm |-> XPMIcon]
                 ELSE IF ~n.ok THEN [err |-> NumError(parts[4]), xpm |-> XPMIcon]
                 ELSE [err |-> NoError,
                       xpm |-> [XPMIcon EXCEPT !.Width = h.val, !.Height = w.val,
                                               !.Colors = c.val, !.CharsPerPixel = n.val]]

\* parseXPM, the header: "width height colors chars_per_pixel"
parseXPMHeader(value, lineNum) ==
    LET parts == Fields(Trim(value, {"\""}))
    IN  IF Len(parts) < 4
        THEN [err |-> ParseError(lineNum, "invalid XPM format", <<>>, <<>>), xpm |-> XPMIcon]
        ELSE LET w == Atoi(parts[1])
                 h == Atoi(parts[2])
                 c == Atoi(parts[3])
                 n == Atoi(parts[4])
             IN  IF ~w.ok THEN [err |-> NumError(parts[1]), xpm |-> XPMIcon]
                 ELSE IF ~h.ok THEN [err |-> NumError(parts[2]), xpm |-> XPMIcon]
                 ELSE IF ~c.ok THEN [err |-> NumError(parts[3]), xpm |-> XPMIcon]
                 ELSE IF ~n.ok THEN [err |-> NumError(parts[4]), xpm |-> XPMIcon]
                 ELSE [err |-> NoError,
                       xpm |-> [XPMIcon EXCEPT !.Width = w.val, !.Height = h.val,
                                               !.Colors = c.val, !.CharsPerPixel = n.val]]

\* parseXPM returns xpm, nil: the caller stores the bitmap in its record
\* (point.DayXpm = xpm, point.NightXpm = xpm, line.DayXpm = xpm, polygon.DayXpm = xpm)
\* and its loop goes on
returnXPM(q) ==
    LET back == [q EXCEPT !.pc = q.caller, !.xpm = XPMIcon, !.linesRead = 0,
                          !.totalLinesToRead = 0, !.caller = "", !.field = <<>>]
    IN  CASE q.caller = "parsePoint" /\ q.field = kDayXpm ->
                 [back EXCEPT !.point.DayXpm = <<q.xpm>>]
          [] q.caller = "parsePoint" /\ q.field = kNightXpm ->
                 [back EXCEPT !.point.NightXpm = <<q.xpm>>]
          [] q.caller = "parseLine" -> [back EXCEPT !.line.DayXpm = <<q.xpm>>]
          [] q.caller = "parsePolygon" -> [back EXCEPT !.polygon.DayXpm = <<q.xpm>>]

\* the call p.parseXPM(value) from the section parser caller, for its key field:
\* the header, then the first test of the loop. wrap: parseLineProperty makes a
\* ParseError "invalid value for Xpm" of any error, the other callers return it as it is
parseXPM(q, value, caller, field, wrap) ==
    LET hd == parseXPMHeader(value, q.lineNum)
        in == [q EXCEPT !.xpm = hd.xpm, !.linesRead = 0,
                        !.totalLinesToRead = hd.xpm.Colors + hd.xpm.Height,
                        !.caller = caller, !.field = field]
    IN  IF hd.err.kind # "nil"
        THEN Fail(q, IF wrap
                     THEN ParseError(q.lineNum, "invalid value for %s: %s", field, value)
                     ELSE hd.err)
        ELSE IF in.linesRead < in.totalLinesToRead
        THEN [in EXCEPT !.pc = "parseXPM"]
        ELSE returnXPM(in)

\* a test that takes one line more as a colour definition line
isColorLineOffByOne(q) == q.linesRead <= q.xpm.Colors

\* if linesRead < xpm.Colors: this is a color definition line
isColorLine(q) == q.linesRead < q.xpm.Colors

\* parseXPM, one turn of its loop: s is what Scan returned
parseXPMLine(q, s) ==
    IF ~s.ok THEN returnXPM(Scanned(q, s))
    ELSE LET a == Advance(q)
             t == TrimSpace(s.text)
         IN  IF t = <<>> \/ HasPrefix(t, <<";">>) THEN a
             ELSE IF ~HasPrefix(t, <<"\"">>) THEN returnXPM(a)
             ELSE LET line  == Trim(t, {"\""})
                      parts == SplitN2(line, cSep)
                      b == IF isColorLine(a)
                           THEN IF Contains(line, cSep)
                                THEN [a EXCEPT !.xpm.Palette =
                                        MapPut(@, parts[1],
                                               [Hex |-> TrimSpace(parts[2]),
                                                Day |-> FALSE, Name |-> <<>>])]
                                ELSE a
                           ELSE [a EXCEPT !.xpm.Data = Append(@, line)]
                      c == [b EXCEPT !.linesRead = @ + 1]
                  IN  IF c.linesRead < c.totalLinesToRead THEN c ELSE returnXPM(c)

\* strings.ToUpper(value) == "Y" || value == "1"
flag(value) == ToUpper(value) = <<"Y">> \/ value = <<"1">>

\* a parsePointProperty for which a line without = is an error
parsePointPropertyStrict(q, line) ==
    LET parts == SplitN2(line, <<"=">>)
        key   == TrimSpace(parts[1])
        value == TrimSpace(parts[2])
    IN  IF Len(parts) # 2 THEN Fail(q, ParseError(q.lineNum, "malformed line", <<>>, <<>>))
        ELSE CASE key = kType -> [q EXCEPT !.point.Type = value]
               [] key = kSubType -> [q EXCEPT !.point.SubType = value]
               [] key \in StringKeys -> [q EXCEPT !.point.Labels = putLabel(@, value)]
               [] key = kDayXpm -> parseXPM(q, value, "parsePoint", kDayXpm, FALSE)
               [] key = kNightXpm -> parseXPM(q, value, "parsePoint", kNightXpm, FALSE)
               [] key = kFontStyle -> [q EXCEPT !.point.FontStyle = value]
               [] OTHER -> q

\* parsePointProperty parses a single property line in a point definition
parsePointProperty(q, line) ==
    LET parts == SplitN2(line, <<"=">>)
        key   == TrimSpace(parts[1])
        value == TrimSpace(parts[2])
    IN  IF Len(parts) # 2 THEN q
        ELSE CASE key = kType -> [q EXCEPT !.point.Type = value]
               [] key = kSubType -> [q EXCEPT !.point.SubType = value]
               [] key \in StringKeys -> [q EXCEPT !.point.Labels = putLabel(@, value)]
               [] key = kDayXpm -> parseXPM(q, value, "parsePoint", kDayXpm, FALSE)
               [] key = kNightXpm -> parseXPM(q, value, "parsePoint", kNightXpm, FALSE)
               [] key = kFontStyle -> [q EXCEPT !.point.FontStyle = value]
               [] OTHER -> q

\* parseLineProperty parses a single property line in a line definition
parseLineProperty(q, textLine) ==
    LET parts == SplitN2(textLine, <<"=">>)
        key   == TrimSpace(parts[1])
        value == TrimSpace(parts[2])
        n     == Atoi(value)
        bad   == Fail(q, ParseError(q.lineNum, "invalid value for %s: %s", key, value))
    IN  IF Len(parts) # 2 THEN q
        ELSE CASE key = kType -> [q EXCEPT !.line.Type = value]
               [] key \in StringKeys -> [q EXCEPT !.line.Labels = putLabel(@, value)]
               [] key = kLineWidth ->
                      IF n.ok THEN [q EXCEPT !.line.LineWidth = n.val] ELSE bad
               [] key = kBorderWidth ->
                      IF n.ok THEN [q EXCEPT !.line.BorderWidth = n.val] ELSE bad
               [] key = kLineStyle -> [q EXCEPT !.line.LineStyle = value]
               [] key = kXpm -> parseXPM(q, value, "parseLine", kXpm, TRUE)
               [] key = kUseOrientation -> [q EXCEPT !.line.UseOrientation = flag(value)]
               [] OTHER -> q

\* parsePolygonProperty parses a single property line in a polygon definition
parsePolygonProperty(q, line) ==
    LET parts == SplitN2(line, <<"=">>)
        key   == TrimSpace(parts[1])
        value == TrimSpace(parts[2])
    IN  IF Len(parts) # 2 THEN q
        ELSE CASE key = kType -> [q EXCEPT !.polygon.Type = value]
               [] key \in StringKeys -> [q EXCEPT !.polygon.Labels = putLabel(@, value)]
               [] key = kXpm -> parseXPM(q, value, "parsePolygon", kXpm, FALSE)
               [] key = kExtendedLabels -> [q EXCEPT !.polygon.ExtendedLabels = flag(value)]
               [] key = kFontStyle -> [q EXCEPT !.polygon.FontStyle = value]
               [] OTHER -> q

\* parseHeader parses the [_id] section: one turn of its loop
parseHeader(q, s) ==
    IF ~s.ok
    THEN Fail(Scanned(q, s),
              ParseError(q.lineNum, "unexpected end of file in header section", <<>>, <<>>))
    ELSE LET a     == Advance(q)
             line  == cleanLine(s.text)
             parts == SplitN2(line, <<"=">>)
             key   == TrimSpace(parts[1])
             value == TrimSpace(parts[2])
             n     == Atoi(value)
             bad   == Fail(a, ParseError(a.lineNum, "invalid value for %s: %s", key, value))
         IN  IF line = <<>> THEN a
             ELSE IF line = EndLine THEN [a EXCEPT !.pc = "Parse"]
             ELSE IF Len(parts) # 2 THEN a
             ELSE CASE key = kCodePage ->
                         IF n.ok THEN [a EXCEPT !.typFile.Header.CodePage = n.val] ELSE bad
                    [] key = kFID ->
                         IF n.ok THEN [a EXCEPT !.typFile.Header.FID = n.val] ELSE bad
                    [] key = kProductCode ->
                         IF n.ok THEN [a EXCEPT !.typFile.Header.ProductCode = n.val] ELSE bad
                    [] key = kMapID ->
                         IF n.ok THEN [a EXCEPT !.typFile.Header.MapID = n.val] ELSE bad
                    [] OTHER -> a

\* a parsePoint whose point is put before the points already stored
parsePointPrepend(q, s) ==
    IF ~s.ok
    THEN Fail(Scanned(q, s),
              ParseError(q.lineNum, "unexpected end of file in point section", <<>>, <<>>))
    ELSE LET a    == Advance(q)
             line == cleanLine(s.text)
         IN  IF line = <<>> THEN a
             ELSE IF line = EndLine
             THEN [a EXCEPT !.pc = "Parse", !.typFile.Points = <<a.point>> \o @,
                            !.point = PointType]
             ELSE parsePointProperty(a, line)

\* parsePoint parses a [_point] section: one turn of its loop; at [end] Parse
\* appends the point to typFile.Points
parsePoint(q, s) ==
    IF ~s.ok
    THEN Fail(Scanned(q, s),
              ParseError(q.lineNum, "unexpected end of file in point section", <<>>, <<>>))
    ELSE LET a    == Advance(q)
             line == cleanLine(s.text)
         IN  IF line = <<>> THEN a
             ELSE IF line = EndLine
             THEN [a EXCEPT !.pc = "Parse", !.typFile.Points = Append(@, a.point),
                            !.point = PointType]
             ELSE parsePointProperty(a, line)

\* parseLine parses a [_line] section: one turn of its loop; at [end] Parse
\* appends the line to typFile.Lines
parseLine(q, s) ==
    IF ~s.ok
    THEN Fail(Scanned(q, s),
              ParseError(q.lineNum, "unexpected end of file in line section", <<>>, <<>>))
    ELSE LET a        == Advance(q)
             textLine == cleanLine(s.text)
         IN  IF textLine = <<>> THEN a
             ELSE IF textLine = EndLine
             THEN [a EXCEPT !.pc = "Parse", !.typFile.Lines = Append(@, a.line),
                            !.line = LineType]
             ELSE parseLineProperty(a, textLine)

\* parsePolygon parses a [_polygon] section: one turn of its loop; at [end] Parse
\* appends the polygon to typFile.Polygons
parsePolygon(q, s) ==
    IF ~s.ok
    THEN Fail(Scanned(q, s),
              ParseError(q.lineNum, "unexpected end of file in polygon section", <<>>, <<>>))
    ELSE LET a    == Advance(q)
             line == cleanLine(s.text)
         IN  IF line = <<>> THEN a
             ELSE IF line = EndLine
             THEN [a EXCEPT !.pc = "Parse", !.typFile.Polygons = Append(@, a.polygon),
                            !.polygon = PolygonType]
             ELSE parsePolygonProperty(a, line)

\* strings.Split(s, ",")[0]
BeforeComma(s) == SplitN2(s, <<",">>)[1]

\* a parseDrawOrder that stores the whole value, priority included
parseDrawOrderWhole(q, s) ==
    IF ~s.ok THEN [Scanned(q, s) EXCEPT !.pc = "Parse"]
    ELSE LET a     == Advance(q)
             line  == cleanLine(s.text)
             parts == SplitN2(line, <<"=">>)
         IN  IF line = <<>> THEN a
             ELSE IF line = EndLine THEN [a EXCEPT !.pc = "Parse"]
             ELSE IF Len(parts) # 2 \/ TrimSpace(parts[1]) # kType THEN a
             ELSE [a EXCEPT !.typFile.DrawOrder.Points = Append(@, TrimSpace(parts[2]))]

\* parseDrawOrder parses the [_drawOrder] section: one turn of its loop.
\* When Scan returns false the function returns nil
parseDrawOrder(q, s) ==
    IF ~s.ok THEN [Scanned(q, s) EXCEPT !.pc = "Parse"]
    ELSE LET a     == Advance(q)
             line  == cleanLine(s.text)
             parts == SplitN2(line, <<"=">>)
         IN  IF line = <<>> THEN a
             ELSE IF line = EndLine THEN [a EXCEPT !.pc = "Parse"]
             ELSE IF Len(parts) # 2 \/ TrimSpace(parts[1]) # kType THEN a
             ELSE [a EXCEPT !.typFile.DrawOrder.Points =
                               Append(@, BeforeComma(TrimSpace(parts[2])))]

\* a skipToEnd that skips one line only
skipToEndOneLine(q, s) ==
    IF ~s.ok
    THEN Fail(Scanned(q, s),
              ParseError(q.lineNum, "unexpected end of file while skipping section", <<>>, <<>>))
    ELSE [Advance(q) EXCEPT !.pc = "Parse"]

\* skipToEnd skips lines until [end] is found: one turn of its loop
skipToEnd(q, s) ==
    IF ~s.ok
    THEN Fail(Scanned(q, s),
              ParseError(q.lineNum, "unexpected end of file while skipping section", <<>>, <<>>))
    ELSE LET a == Advance(q)
         IN  IF cleanLine(s.text) = EndLine THEN [a EXCEPT !.pc = "Parse"] ELSE a

\* a Parse without the case for [end]: the marker opens an unknown section
ParseNoEndCase(q, s) ==
    IF ~s.ok
    THEN IF Scanned(q, s).scanErr THEN Fail(Scanned(q, s), ReadError) ELSE Succeed(q)
    ELSE LET a       == Advance(q)
             line    == cleanLine(s.text)
             section == TrimSpace(Trim(line, {"[", "]"}))
         IN  IF line = <<>> THEN a
             ELSE IF ~HasPrefix(line, <<"[">>) THEN a
             ELSE CASE section = sId -> [a EXCEPT !.pc = "parseHeader"]
                    [] section = sPoint -> [a EXCEPT !.pc = "parsePoint", !.point = PointType]
                    [] section = sLine -> [a EXCEPT !.pc = "parseLine", !.line = LineType]
                    [] section = sPolygon ->
                           [a EXCEPT !.pc = "parsePolygon", !.polygon = PolygonType]
                    [] section = sDrawOrder -> [a EXCEPT !.pc = "parseDrawOrder"]
                    [] OTHER -> [a EXCEPT !.pc = "skipToEnd"]

\* Parse parses the TYP file: one turn of its loop, and what follows the loop
\* when Scan returns false
Parse(q, s) ==
    IF ~s.ok
    THEN IF Scanned(q, s).scanErr THEN Fail(Scanned(q, s), ReadError) ELSE Succeed(q)
    ELSE LET a       == Advance(q)
             line    == cleanLine(s.text)
             section == TrimSpace(Trim(line, {"[", "]"}))
         IN  IF line = <<>> THEN a
             ELSE IF ~HasPrefix(line, <<"[">>) THEN a
             ELSE CASE section = sId -> [a EXCEPT !.pc = "parseHeader"]
                    [] section = sPoint -> [a EXCEPT !.pc = "parsePoint", !.point = PointType]
                    [] section = sLine -> [a EXCEPT !.pc = "parseLine", !.line = LineType]
                    [] section = sPolygon ->
                           [a EXCEPT !.pc = "parsePolygon", !.polygon = PolygonType]
                    [] section = sDrawOrder -> [a EXCEPT !.pc = "parseDrawOrder"]
                    [] section = sEnd -> a
                    [] OTHER -> [a EXCEPT !.pc = "skipToEnd"]

\* one turn of the loop of whichever function is running
Step(q, s) ==
    CASE q.pc = "Parse" -> Parse(q, s)
      [] q.pc = "parseHeader" -> parseHeader(q, s)
      [] q.pc = "parsePoint" -> parsePoint(q, s)
      [] q.pc = "parseLine" -> parseLine(q, s)
      [] q.pc = "parsePolygon" -> parsePolygon(q, s)
      [] q.pc = "parseDrawOrder" -> parseDrawOrder(q, s)
      [] q.pc = "skipToEnd" -> skipToEnd(q, s)
      [] q.pc = "parseXPM" -> parseXPMLine(q, s)

\* ParseFile on a readable file of these lines: NewParser, then Parse to its return
RECURSIVE Run(_, _)
Run(q, text) == IF q.pc = "done" THEN q ELSE Run(Step(q, Scan(q, text, FALSE)), text)

ParseFile(text) == Run(NewParser, text).ret

\* ParseFile(filePath) on a readable file of these lines
ParseFileAt(filePath, text) == Run(NewParserAt(filePath), text).ret

(***************************************************************************)
(* The writer.  The text written is the sequence of its lines.  Go ranges  *)
(* over a map in an order it does not fix, so each write* is the set of    *)
(* the texts it can emit.                                                  *)
(***************************************************************************)

\* the texts a followed by the texts b
Cat(A, B) == {a \o b : a \in A, b \in B}

RECURSIVE CatAll(_)
CatAll(sets) == IF sets = <<>> THEN {<<>>} ELSE Cat(Head(sets), CatAll(Tail(sets)))

\* the orders in which a range over a map with these keys can meet them
RangeOrders(keys) ==
    {f \in [1..Cardinality(keys) -> keys] : \A i, j \in DOMAIN f : f[i] = f[j] => i = j}

\* fmt.Sprintf("%s=%s\n", key, value)
KeyValue(key, value) == key \o <<"=">> \o value

\* "[" section "]"
Marker(section) == <<"[">> \o section \o <<"]">>

\* b.WriteString("[end]\n\n")
EndOfSection == <<EndLine, <<>>>>

\* writeHeader writes the [_id] header section
writeHeader(header) ==
    {<<Marker(sId)>>
     \o (IF header.CodePage > 0 THEN <<KeyValue(kCodePage, FormatInt(header.CodePage))>> ELSE <<>>)
     \o (IF header.FID > 0 THEN <<KeyValue(kFID, FormatInt(header.FID))>> ELSE <<>>)
     \o (IF header.ProductCode > 0
         THEN <<KeyValue(kProductCode, FormatInt(header.ProductCode))>> ELSE <<>>)
     \o (IF header.MapID > 0 THEN <<KeyValue(kMapID, FormatInt(header.MapID))>> ELSE <<>>)
     \o EndOfSection}

\* a writeLabels that writes every label in the order of the range over the map
writeLabelsAnyOrder(labels) ==
    {[i \in DOMAIN order |-> KeyValue(kString, order[i] \o <<",">> \o labels[order[i]])]
       : order \in RangeOrders(DOMAIN labels)}

\* writeLabels writes String= lines for all labels
writeLabels(labels) ==
    LET first  == IF lang0x04 \in DOMAIN labels
                  THEN <<KeyValue(kString, lang0x04 \o <<",">> \o labels[lang0x04])>>
                  ELSE <<>>
        others == (DOMAIN labels) \ {lang0x04}
    IN  {first \o [i \in DOMAIN order |->
                     KeyValue(kString, order[i] \o <<",">> \o labels[order[i]])]
           : order \in RangeOrders(others)}

\* a writeXPM that writes the pixel rows before the palette
writeXPMRowsFirst(fieldName, xpm) ==
    LET head == KeyValue(fieldName,
                         <<"\"">> \o FormatInt(xpm.Width) \o <<" ">> \o FormatInt(xpm.Height)
                         \o <<" ">> \o FormatInt(xpm.Colors) \o <<" ">>
                         \o FormatInt(xpm.CharsPerPixel) \o <<"\"">>)
        color(char) ==
            IF xpm.Palette[char].Hex = hexNone \/ xpm.Palette[char].Hex = hexTransparent
            THEN <<"\"">> \o char \o cSep \o hexNone \o <<"\"">>
            ELSE <<"\"">> \o char \o cSep \o xpm.Palette[char].Hex \o <<"\"">>
        data == [i \in DOMAIN xpm.Data |-> <<"\"">> \o xpm.Data[i] \o <<"\"">>]
    IN  {<<head>> \o data \o [i \in DOMAIN order |-> color(order[i])]
           : order \in RangeOrders(DOMAIN xpm.Palette)}

\* writeXPM writes an XPM icon/pattern
writeXPM(fieldName, xpm) ==
    LET head == KeyValue(fieldName,
                         <<"\"">> \o FormatInt(xpm.Width) \o <<" ">> \o FormatInt(xpm.Height)
                         \o <<" ">> \o FormatInt(xpm.Colors) \o <<" ">>
                         \o FormatInt(xpm.CharsPerPixel) \o <<"\"">>)
        color(char) ==
            IF xpm.Palette[char].Hex = hexNone \/ xpm.Palette[char].Hex = hexTransparent
            THEN <<"\"">> \o char \o cSep \o hexNone \o <<"\"">>
            ELSE <<"\"">> \o char \o cSep \o xpm.Palette[char].Hex \o <<"\"">>
        data == [i \in DOMAIN xpm.Data |-> <<"\"">> \o xpm.Data[i] \o <<"\"">>]
    IN  {<<head>> \o [i \in DOMAIN order |-> color(order[i])] \o data
           : order \in RangeOrders(DOMAIN xpm.Palette)}

\* if ptr != nil { writeXPM(b, fieldName, ptr) }
writeOptXPM(fieldName, ptr) == IF ptr # <<>> THEN writeXPM(fieldName, ptr[1]) ELSE {<<>>}

\* writePointType writes a [_point] section
writePointType(point) ==
    CatAll(<<{<<Marker(sPoint), KeyValue(kType, point.Type)>>
              \o (IF point.SubType # <<>> THEN <<KeyValue(kSubType, point.SubType)>> ELSE <<>>)},
             writeLabels(point.Labels),
             writeOptXPM(kDayXpm, point.DayXpm),
             writeOptXPM(kNightXpm, point.NightXpm),
             {(IF point.FontStyle # <<>> THEN <<KeyValue(kFontStyle, point.FontStyle)>> ELSE <<>>)
              \o EndOfSection}>>)

\* writeLineType writes a [_line] section
writeLineType(line) ==
    CatAll(<<{<<Marker(sLine), KeyValue(kType, line.Type)>>},
             writeLabels(line.Labels),
             {(IF line.LineWidth > 0
               THEN <<KeyValue(kLineWidth, FormatInt(line.LineWidth))>> ELSE <<>>)
              \o (IF line.BorderWidth > 0
                  THEN <<KeyValue(kBorderWidth, FormatInt(line.BorderWidth))>> ELSE <<>>)
              \o (IF line.LineStyle # <<>> THEN <<KeyValue(kLineStyle, line.LineStyle)>> ELSE <<>>)
              \o (IF line.UseOrientation THEN <<KeyValue(kUseOrientation, <<"Y">>)>> ELSE <<>>)},
             writeOptXPM(kXpm, line.DayXpm),
             writeOptXPM(kNightXpm, line.NightXpm),
             {EndOfSection}>>)

\* writePolygonType writes a [_polygon] section
writePolygonType(polygon) ==
    CatAll(<<{<<Marker(sPolygon), KeyValue(kType, polygon.Type)>>},
             writeLabels(polygon.Labels),
             {(IF polygon.ExtendedLabels THEN <<KeyValue(kExtendedLabels, <<"Y">>)>> ELSE <<>>)
              \o (IF polygon.FontStyle # <<>>
                  THEN <<KeyValue(kFontStyle, polygon.FontStyle)>> ELSE <<>>)},
             writeOptXPM(kXpm, polygon.DayXpm),
             writeOptXPM(kNightXpm, polygon.NightXpm),
             {EndOfSection}>>)

\* a WriteFile that writes the line types before the point types
WriteFileLinesFirst(typFile) ==
    CatAll(<<writeHeader(typFile.Header)>>
           \o [i \in DOMAIN typFile.Lines |-> writeLineType(typFile.Lines[i])]
           \o [i \in DOMAIN typFile.Points |-> writePointType(typFile.Points[i])]
           \o [i \in DOMAIN typFile.Polygons |-> writePolygonType(typFile.Polygons[i])])

\* WriteFile writes a TYPFile to disk in TYP text format: the texts it can write
WriteFile(typFile) ==
    CatAll(<<writeHeader(typFile.Header)>>
           \o [i \in DOMAIN typFile.Points |-> writePointType(typFile.Points[i])]
           \o [i \in DOMAIN typFile.Lines |-> writeLineType(typFile.Lines[i])]
           \o [i \in DOMAIN typFile.Polygons |-> writePolygonType(typFile.Polygons[i])])

\* os.WriteFile(filePath, []byte(content), 0644) on a file whose content is old:
\* OpenFile with O_WRONLY|O_CREATE|O_TRUNC, Write, Close. It succeeds, or the open
\* fails and the file is as it was, or the file is truncated and the write or the
\* close fails after some of the lines have been written
osWriteFile(old, data, fails) ==
    {[file |-> <<data>>, err |-> NoError]}
    \cup (IF TRUE \in fails
          THEN {[file |-> old, err |-> WriteError]}
               \cup {[file |-> <<SubSeq(data, 1, k)>>, err |-> WriteError] : k \in 0..Len(data)}
          ELSE {})

(***************************************************************************)
(* The editor (internal/tui).  m is a Model: m.typFile is the pointer to    *)
(* the document (<<>>: nil) and m.editingXPM the pointer to the bitmap of a *)
(* record of it, named by the tab and the place of the record.  A handler   *)
(* returns the Model, the file at m.filePath and the command; where the     *)
(* write of the file can fail it can return one of several.                 *)
(***************************************************************************)

ModeList == "ModeList"
ModeDetail == "ModeDetail"
ModeEdit == "ModeEdit"
ModeEditXPM == "ModeEditXPM"
ModeHelp == "ModeHelp"
ModeError == "ModeError"
ModeConfirmQuit == "ModeConfirmQuit"

TabPoints == 0
TabLines == 1
TabPolygons == 2

\* the errors of saveFile
ErrNoFileLoaded ==
    [kind |-> "errorString", Line |-> 0, Message |-> "no file loaded", Key |-> <<>>, Value |-> <<>>]
ErrNoFilePath ==
    [kind |-> "errorString", Line |-> 0, Message |-> "no file path", Key |-> <<>>, Value |-> <<>>]

NewModel(filePath) ==
    [typFile |-> <<>>, modified |-> FALSE, mode |-> ModeList, width |-> 0, height |-> 0,
     activeTab |-> TabPoints, selectedIdx |-> 0, focusedField |-> 0, inputs |-> <<>>,
     editingXPM |-> <<>>, editingXPMType |-> "", xpmColorIdx |-> 0,
     err |-> NoError, status |-> "", filePath |-> filePath]

\* what Update returns: the Model and the command, with the file at m.filePath
Ret(m, file, cmd) == [m |-> m, file |-> file, cmd |-> cmd]

\* the records of the document that a tab lists
Records(d, tab) ==
    CASE tab = TabPoints -> d.Points
      [] tab = TabLines -> d.Lines
      [] tab = TabPolygons -> d.Polygons
      [] OTHER -> <<>>

\* a textinput.Model: SetValue keeps at most CharLimit characters
NewInput(value, limit) ==
    [value |-> SubSeq(value, 1, Min({Len(value), limit})), CharLimit |-> limit]

\* the keys that are one character: a text input takes them as text
KeyRunes == {"q", "?", "k", "j", "e", "x", "y", "Y", "n", "N", "c", "C", "s", "1", "-", "#"}

\* textinput.Model.Update(msg): a character goes to the end of the value while
\* the limit allows, backspace deletes the last one, other keys change nothing
textinputUpdate(in, key) ==
    IF key \in KeyRunes
    THEN IF Len(in.value) < in.CharLimit THEN [in EXCEPT !.value = Append(@, key)] ELSE in
    ELSE IF key = "backspace" /\ in.value # <<>>
    THEN [in EXCEPT !.value = SubSeq(@, 1, Len(@) - 1)]
    ELSE in

\* the value of the English label, or the empty text
Label0x04(labels) == IF lang0x04 \in DOMAIN labels THEN labels[lang0x04] ELSE <<>>

FirstHex(colors) == IF Len(colors) > 0 THEN colors[1].Hex ELSE <<>>

initPointEditInputs(m, point) ==
    [m EXCEPT !.inputs = <<NewInput(point.Type, 10), NewInput(point.SubType, 10),
                           NewInput(Label0x04(point.Labels), 50),
                           NewInput(point.FontStyle, 20),
                           NewInput(FirstHex(point.DayColors), 7),
                           NewInput(FirstHex(point.NightColors), 7)>>,
              !.focusedField = 0]

initLineEditInputs(m, line) ==
    [m EXCEPT !.inputs = <<NewInput(line.Type, 10), NewInput(Label0x04(line.Labels), 50),
                           NewInput(IF line.LineWidth > 0 THEN FormatInt(line.LineWidth)
                                    ELSE <<>>, 5),
                           NewInput(IF line.BorderWidth > 0 THEN FormatInt(line.BorderWidth)
                                    ELSE <<>>, 5),
                           NewInput(line.LineStyle, 20),
                           NewInput(IF line.UseOrientation THEN <<"Y">> ELSE <<"N">>, 1)>>,
              !.focusedField = 0]

initPolygonEditInputs(m, polygon) ==
    [m EXCEPT !.inputs = <<NewInput(polygon.Type, 10),
                           NewInput(Label0x04(polygon.Labels), 50),
                           NewInput(IF polygon.ExtendedLabels THEN <<"Y">> ELSE <<"N">>, 1),
                           NewInput(polygon.FontStyle, 20)>>,
              !.focusedField = 0]

\* saveFile clearing the modified flag before it writes, so also when the write fails
saveFileClearsFirst(m, file, fails) ==
    IF m.typFile = <<>> THEN {[m |-> m, file |-> file, err |-> ErrNoFileLoaded]}
    ELSE IF m.filePath = "" THEN {[m |-> m, file |-> file, err |-> ErrNoFilePath]}
    ELSE {IF out.err.kind # "nil"
          THEN [m |-> [m EXCEPT !.modified = FALSE], file |-> out.file, err |-> out.err]
          ELSE [m |-> [m EXCEPT !.modified = FALSE, !.status = "File saved successfully"],
                file |-> out.file, err |-> NoError] :
             out \in UNION {osWriteFile(file, text, fails) : text \in WriteFile(m.typFile[1])}}

\* saveFile: the errors before the write, then parser.WriteFile(m.typFile, m.filePath);
\* gives the Model, the file and the error it returns
saveFile(m, file, fails) ==
    IF m.typFile = <<>> THEN {[m |-> m, file |-> file, err |-> ErrNoFileLoaded]}
    ELSE IF m.filePath = "" THEN {[m |-> m, file |-> file, err |-> ErrNoFilePath]}
    ELSE {IF out.err.kind # "nil"
          THEN [m |-> m, file |-> out.file, err |-> out.err]
          ELSE [m |-> [m EXCEPT !.modified = FALSE, !.status = "File saved successfully"],
                file |-> out.file, err |-> NoError] :
             out \in UNION {osWriteFile(file, text, fails) : text \in WriteFile(m.typFile[1])}}

\* getMaxIndex counting the records of all three tabs
getMaxIndexAllTabs(m) ==
    IF m.typFile = <<>> THEN 0
    ELSE Len(m.typFile[1].Points) + Len(m.typFile[1].Lines) + Len(m.typFile[1].Polygons)

\* getMaxIndex returns the maximum index for the current tab
getMaxIndex(m) ==
    IF m.typFile = <<>> THEN 0 ELSE Len(Records(m.typFile[1], m.activeTab))

\* the colour with a # in front, as saveEdits and the colour input store it
WithHash(value) == IF HasPrefix(value, <<"#">>) THEN value ELSE <<"#">> \o value

\* the colours of a point after the form's colour value: the first is updated, or
\* a first one is made
StoreColor(colors, value, day) ==
    IF value = <<>> THEN colors
    ELSE IF Len(colors) > 0 THEN [colors EXCEPT ![1].Hex = WithHash(value)]
    ELSE <<[Hex |-> WithHash(value), Day |-> day, Name |-> <<>>]>>

IsYes(value) == ToUpper(value) \in {<<"Y">>, <<"Y","E","S">>}

\* saveEdits saves the current edit form values back to the data structure
saveEdits(m) ==
    IF Len(m.inputs) < 2 \/ m.typFile = <<>> THEN m
    ELSE LET i == m.selectedIdx + 1
             v == [k \in 1..Len(m.inputs) |-> m.inputs[k].value]
             d == m.typFile[1]
         IN  CASE m.activeTab = TabPoints /\ m.selectedIdx < Len(d.Points)
                  /\ Len(m.inputs) >= 6 ->
                    [m EXCEPT !.typFile[1].Points[i] =
                        [@ EXCEPT !.Type = v[1], !.SubType = v[2],
                                  !.Labels = MapPut(@, lang0x04, v[3]),
                                  !.FontStyle = v[4],
                                  !.DayColors = StoreColor(@, v[5], TRUE),
                                  !.NightColors = StoreColor(@, v[6], FALSE)]]
               [] m.activeTab = TabLines /\ m.selectedIdx < Len(d.Lines)
                  /\ Len(m.inputs) >= 6 ->
                    [m EXCEPT !.typFile[1].Lines[i] =
                        [@ EXCEPT !.Type = v[1],
                                  !.Labels = MapPut(@, lang0x04, v[2]),
                                  !.LineWidth = IF Atoi(v[3]).ok THEN Atoi(v[3]).val ELSE @,
                                  !.BorderWidth = IF Atoi(v[4]).ok THEN Atoi(v[4]).val ELSE @,
                                  !.LineStyle = v[5],
                                  !.UseOrientation = IsYes(v[6])]]
               [] m.activeTab = TabPolygons /\ m.selectedIdx < Len(d.Polygons)
                  /\ Len(m.inputs) >= 4 ->
                    [m EXCEPT !.typFile[1].Polygons[i] =
                        [@ EXCEPT !.Type = v[1],
                                  !.Labels = MapPut(@, lang0x04, v[2]),
                                  !.ExtendedLabels = IsYes(v[3]),
                                  !.FontStyle = v[4]]]
               [] OTHER -> m

\* the order of the characters of the model in a Go string comparison
ByteOrder ==
    <<" ", "#", "-", "0", "1", "2", "3", "4", "5", "6", "7", "8", "9", "?",
      "A", "B", "C", "N", "Y", "a", "b", "c", "e", "j", "k", "n", "q", "s", "x", "y">>

Ord(c) == IF \E i \in 1..Len(ByteOrder) : ByteOrder[i] = c
          THEN CHOOSE i \in 1..Len(ByteOrder) : ByteOrder[i] = c
          ELSE Len(ByteOrder) + 1

\* s < t on Go strings
RECURSIVE Less(_, _)
Less(s, t) ==
    IF t = <<>> THEN FALSE
    ELSE IF s = <<>> THEN TRUE
    ELSE IF s[1] = t[1] THEN Less(Tail(s), Tail(t))
    ELSE Ord(s[1]) < Ord(t[1])

\* the palette characters in the order of sort.Slice(colors, ...char < ...char)
RECURSIVE SortedChars(_)
SortedChars(S) ==
    IF S = {} THEN <<>>
    ELSE LET c == CHOOSE x \in S : \A y \in S \ {x} : Less(x, y)
         IN  <<c>> \o SortedChars(S \ {c})

\* the record the pointer m.editingXPM was taken from, and the bitmap behind it
XpmOwner(m) == Records(m.typFile[1], m.editingXPM[1].tab)[m.editingXPM[1].idx]
EditingXPM(m) == XpmOwner(m).DayXpm[1]

\* m.editingXPM.Palette[char] = color
SetPalette(m, char, color) ==
    LET i == m.editingXPM[1].idx IN
    CASE m.editingXPM[1].tab = TabPoints ->
           [m EXCEPT !.typFile[1].Points[i].DayXpm[1].Palette = MapPut(@, char, color)]
      [] m.editingXPM[1].tab = TabLines ->
           [m EXCEPT !.typFile[1].Lines[i].DayXpm[1].Palette = MapPut(@, char, color)]
      [] m.editingXPM[1].tab = TabPolygons ->
           [m EXCEPT !.typFile[1].Polygons[i].DayXpm[1].Palette = MapPut(@, char, color)]

\* enterColorEdit enters color editing mode for the selected palette entry
enterColorEdit(m) ==
    IF m.editingXPM = <<>> THEN m
    ELSE LET colors == SortedChars(DOMAIN EditingXPM(m).Palette) IN
         IF Len(colors) = 0 \/ m.xpmColorIdx >= Len(colors) THEN m
         ELSE [m EXCEPT !.inputs =
                            <<NewInput(EditingXPM(m).Palette[colors[m.xpmColorIdx + 1]].Hex, 7)>>,
                        !.focusedField = 0]

\* handleXPMEditKeyPress handles keyboard input in XPM edit mode
handleXPMEditKeyPress(m, key) ==
    IF m.editingXPM = <<>> THEN m
    ELSE IF Len(m.inputs) > 0
    THEN CASE key = "enter" ->
                LET colors == SortedChars(DOMAIN EditingXPM(m).Palette)
                    char   == colors[m.xpmColorIdx + 1]
                    m1     == IF m.xpmColorIdx < Len(colors)
                              THEN SetPalette(m, char,
                                       [EditingXPM(m).Palette[char] EXCEPT
                                            !.Hex = WithHash(m.inputs[1].value)])
                              ELSE m
                IN  [m1 EXCEPT !.inputs = <<>>]
           [] key = "esc" -> [m EXCEPT !.inputs = <<>>]
           [] OTHER -> [m EXCEPT !.inputs[1] = textinputUpdate(@, key)]
    ELSE CASE key = "ctrl+s" ->
                [m EXCEPT !.modified = TRUE, !.mode = ModeDetail, !.editingXPM = <<>>,
                          !.status = "XPM changes saved"]
           [] key = "esc" -> [m EXCEPT !.mode = ModeDetail, !.editingXPM = <<>>]
           [] key \in {"up", "k"} ->
                IF m.xpmColorIdx > 0 THEN [m EXCEPT !.xpmColorIdx = @ - 1] ELSE m
           [] key \in {"down", "j"} ->
                IF m.xpmColorIdx < Cardinality(DOMAIN EditingXPM(m).Palette) - 1
                THEN [m EXCEPT !.xpmColorIdx = @ + 1] ELSE m
           [] key = "enter" -> enterColorEdit(m)
           [] OTHER -> m

\* handleEditModeKeyPress moving the focus with no wrap at either end
handleEditModeKeyPressNoWrap(m, file, key) ==
    CASE key = "ctrl+s" ->
           IF Len(m.inputs) >= 2 /\ m.typFile = <<>> THEN Ret(m, file, "panic")
           ELSE Ret([saveEdits(m) EXCEPT !.modified = TRUE, !.mode = ModeDetail,
                                         !.inputs = <<>>], file, "nil")
      [] key = "esc" -> Ret([m EXCEPT !.mode = ModeDetail, !.inputs = <<>>], file, "nil")
      [] key \in {"tab", "down"} -> Ret([m EXCEPT !.focusedField = @ + 1], file, "nil")
      [] key \in {"shift+tab", "up"} -> Ret([m EXCEPT !.focusedField = @ - 1], file, "nil")
      [] OTHER ->
           IF m.focusedField < Len(m.inputs)
           THEN IF m.focusedField < 0 THEN Ret(m, file, "panic")
                ELSE Ret([m EXCEPT !.inputs[m.focusedField + 1] = textinputUpdate(@, key)],
                         file, "nil")
           ELSE Ret(m, file, "nil")

\* handleEditModeKeyPress handles keyboard input in edit mode; the command is
\* "panic" where the Go code indexes out of range or through a nil pointer
handleEditModeKeyPress(m, file, key) ==
    CASE key = "ctrl+s" ->
           IF Len(m.inputs) >= 2 /\ m.typFile = <<>> THEN Ret(m, file, "panic")
           ELSE Ret([saveEdits(m) EXCEPT !.modified = TRUE, !.mode = ModeDetail,
                                         !.inputs = <<>>], file, "nil")
      [] key = "esc" -> Ret([m EXCEPT !.mode = ModeDetail, !.inputs = <<>>], file, "nil")
      [] key \in {"tab", "shift+tab", "up", "down"} ->
           LET f == IF key \in {"tab", "down"}
                    THEN IF m.focusedField + 1 >= Len(m.inputs) THEN 0
                         ELSE m.focusedField + 1
                    ELSE IF m.focusedField - 1 < 0 THEN Len(m.inputs) - 1
                         ELSE m.focusedField - 1
           IN  Ret([m EXCEPT !.focusedField = f], file, "nil")
      [] OTHER ->
           IF m.focusedField < Len(m.inputs)
           THEN IF m.focusedField < 0 THEN Ret(m, file, "panic")
                ELSE Ret([m EXCEPT !.inputs[m.focusedField + 1] = textinputUpdate(@, key)],
                         file, "nil")
           ELSE Ret(m, file, "nil")

\* a confirm-quit dialog that quits after y whether or not the save succeeded
handleConfirmQuitAnyway(m, file, key, fails) ==
    CASE key \in {"y", "Y"} -> {Ret(s.m, s.file, "Quit") : s \in saveFile(m, file, fails)}
      [] key \in {"n", "N"} -> {Ret(m, file, "Quit")}
      [] key \in {"esc", "c", "C"} -> {Ret([m EXCEPT !.mode = ModeList], file, "nil")}
      [] OTHER -> {Ret(m, file, "nil")}

\* handleConfirmQuit handles the confirm quit dialog
handleConfirmQuit(m, file, key, fails) ==
    CASE key \in {"y", "Y"} ->
           {IF s.err.kind # "nil"
            THEN Ret([s.m EXCEPT !.status = "Error saving", !.mode = ModeList], s.file, "nil")
            ELSE Ret(s.m, s.file, "Quit") : s \in saveFile(m, file, fails)}
      [] key \in {"n", "N"} -> {Ret(m, file, "Quit")}
      [] key \in {"esc", "c", "C"} -> {Ret([m EXCEPT !.mode = ModeList], file, "nil")}
      [] OTHER -> {Ret(m, file, "nil")}

\* the case "e" of handleKeyPress: the form of the selected record
enterEdit(m) ==
    LET d == m.typFile[1]
        i == m.selectedIdx + 1
        e == [m EXCEPT !.mode = ModeEdit]
    IN  CASE m.activeTab = TabPoints /\ m.selectedIdx < Len(d.Points) ->
               initPointEditInputs(e, d.Points[i])
          [] m.activeTab = TabLines /\ m.selectedIdx < Len(d.Lines) ->
               initLineEditInputs(e, d.Lines[i])
          [] m.activeTab = TabPolygons /\ m.selectedIdx < Len(d.Polygons) ->
               initPolygonEditInputs(e, d.Polygons[i])
          [] OTHER -> e

\* the case "x" of handleKeyPress: XPM edit mode on the DayXpm of the selected record
enterEditXPM(m) ==
    LET rs == Records(m.typFile[1], m.activeTab)
        i  == m.selectedIdx + 1
    IN  IF m.selectedIdx < Len(rs) /\ rs[i].DayXpm # <<>>
        THEN [m EXCEPT !.editingXPM = <<[tab |-> m.activeTab, idx |-> i]>>,
                       !.editingXPMType = IF m.activeTab = TabPoints THEN "DayXpm" ELSE "Xpm",
                       !.xpmColorIdx = 0, !.mode = ModeEditXPM]
        ELSE m

\* handleKeyPress handles keyboard input
handleKeyPress(m0, file, key, fails) ==
    IF m0.mode = ModeConfirmQuit THEN handleConfirmQuit(m0, file, key, fails)
    ELSE LET m == [m0 EXCEPT !.status = ""] IN
    CASE key \in {"q", "ctrl+c"} ->
           IF m.modified THEN {Ret([m EXCEPT !.mode = ModeConfirmQuit], file, "nil")}
           ELSE {Ret(m, file, "Quit")}
      [] key = "ctrl+s" ->
           IF m.mode \in {ModeList, ModeDetail} /\ m.typFile # <<>>
           THEN {Ret(IF s.err.kind # "nil" THEN [s.m EXCEPT !.status = "Error saving"]
                     ELSE s.m, s.file, "nil") : s \in saveFile(m, file, fails)}
           ELSE {Ret(m, file, "nil")}
      [] key = "?" ->
           {Ret([m EXCEPT !.mode = IF m.mode = ModeHelp THEN ModeList ELSE ModeHelp],
                file, "nil")}
      [] key = "tab" ->
           {Ret(IF m.mode = ModeList
                THEN [m EXCEPT !.activeTab = (@ + 1) % 3, !.selectedIdx = 0] ELSE m,
                file, "nil")}
      [] key \in {"up", "k"} ->
           {Ret(IF m.mode = ModeList /\ m.selectedIdx > 0
                THEN [m EXCEPT !.selectedIdx = @ - 1] ELSE m, file, "nil")}
      [] key \in {"down", "j"} ->
           {Ret(IF m.mode = ModeList /\ m.selectedIdx < getMaxIndex(m) - 1
                THEN [m EXCEPT !.selectedIdx = @ + 1] ELSE m, file, "nil")}
      [] key = "enter" ->
           {Ret(IF m.mode = ModeList /\ m.typFile # <<>> /\ getMaxIndex(m) > 0
                THEN [m EXCEPT !.mode = ModeDetail] ELSE m, file, "nil")}
      [] key = "esc" ->
           {Ret(IF m.mode = ModeDetail THEN [m EXCEPT !.mode = ModeList]
                ELSE IF m.mode = ModeEdit THEN [m EXCEPT !.mode = ModeDetail, !.inputs = <<>>]
                ELSE m, file, "nil")}
      [] key = "e" ->
           {Ret(IF m.mode = ModeDetail /\ m.typFile # <<>> THEN enterEdit(m) ELSE m,
                file, "nil")}
      [] key = "x" ->
           {Ret(IF m.mode = ModeDetail /\ m.typFile # <<>> THEN enterEditXPM(m) ELSE m,
                file, "nil")}
      [] OTHER -> {Ret(m, file, "nil")}

\* Update, for a tea.KeyMsg
UpdateKey(m, file, key, fails) ==
    IF m.mode = ModeEdit THEN {handleEditModeKeyPress(m, file, key)}
    ELSE IF m.mode = ModeEditXPM THEN {Ret(handleXPMEditKeyPress(m, key), file, "nil")}
    ELSE handleKeyPress(m, file, key, fails)

\* Update, for a tea.WindowSizeMsg
UpdateWindowSize(m, width, height) == [m EXCEPT !.width = width, !.height = height]

\* Update, for the fileLoadedMsg that loadFileCmd returns: msg is what ParseFile
\* returned
UpdateFileLoaded(m, msg) ==
    IF msg.err.kind # "nil" THEN [m EXCEPT !.err = msg.err, !.mode = ModeError]
    ELSE [m EXCEPT !.typFile = msg.typFile, !.mode = ModeList]

(***************************************************************************)
(* The files the model parses                                              *)
(***************************************************************************)

MaxLines == 4
MaxBody == 2
MaxXpmLines == 3
MaxLineLen == 4

SeqsUpTo(S, n) == UNION {[1..k -> S] : k \in 0..n}

Quoted(s) == <<"\"">> \o s \o <<"\"">>

v0x1 == <<"0","x","1">>
v0x2 == <<"0","x","2">>
v0x01 == <<"0","x","0","1">>
Comment == <<" ",";"," ","c">>

\* any lines in any order, at top level or wherever they fall
GenPool ==
    {Marker(sPoint), Marker(sLine), Marker(sPolygon), Marker(sDrawOrder),
     Marker(<<"f","o","o">>), EndLine, KeyValue(kType, v0x1 \o <<",","2">>)}

GenFiles == SeqsUpTo(GenPool, MaxLines)

\* one section: its marker, a body, and [end] or the end of the file
Section(section, pool) ==
    {<<Marker(section)>> \o body \o tail :
        body \in SeqsUpTo(pool, MaxBody), tail \in {<<>>, <<EndLine>>}}

HeaderPool ==
    {KeyValue(kCodePage, <<"1","2","5","2">>), KeyValue(kCodePage, <<"-","1">>),
     KeyValue(kFID, <<"x">>), <<" ">> \o kFID \o <<" ","="," ","1","2">> \o Comment,
     KeyValue(kMapID, <<"+","7">>), KeyValue(kProductCode, <<"0">>), kFID,
     KeyValue(<<"F","o","o">>, <<"1">>)}

PointPool ==
    {KeyValue(kType, v0x1), KeyValue(kType, v0x2) \o Comment, KeyValue(kSubType, v0x2),
     KeyValue(kString, lang0x04 \o <<",","A">>), KeyValue(kString1, lang0x04 \o <<",","B">>),
     KeyValue(kString2, v0x01 \o <<",","C">>),
     <<" ">> \o kString3 \o <<" ","="," ">> \o v0x01 \o <<" ",","," ","D"," ","e"," ">>,
     KeyValue(kString, <<"A">>), KeyValue(kFontStyle, <<"f">>), <<"j","u","n","k">>}

LinePool ==
    {KeyValue(kType, v0x1), KeyValue(kLineWidth, <<"3">>), KeyValue(kLineWidth, <<"x">>),
     KeyValue(kBorderWidth, <<"-","2">>), KeyValue(kBorderWidth, <<>>),
     KeyValue(kLineStyle, <<"s">>), KeyValue(kUseOrientation, <<"y">>),
     KeyValue(kUseOrientation, <<"N">>), KeyValue(kString4, lang0x04 \o <<",","A">>),
     <<"F","o","o">>}

PolygonPool ==
    {KeyValue(kType, v0x1), KeyValue(kExtendedLabels, <<"1">>),
     KeyValue(kExtendedLabels, <<"Y">>), KeyValue(kFontStyle, <<"f">>),
     KeyValue(kString, v0x01 \o <<",","A",",","B">>), <<"F","o","o">>,
     KeyValue(kLineWidth, <<"x">>)}

DrawOrderPool ==
    {KeyValue(kType, v0x1 \o <<",","2">>), KeyValue(kType, v0x2),
     KeyValue(<<"F","o","o">>, <<"1">>), kType}

SectionFiles ==
    Section(sId, HeaderPool) \cup Section(sPoint, PointPool) \cup Section(sLine, LinePool)
    \cup Section(sPolygon, PolygonPool) \cup Section(sDrawOrder, DrawOrderPool)

\* bitmap headers: well formed, too few and too many numbers, a negative number,
\* a word for a number
h1111 == <<"1"," ","1"," ","1"," ","1">>
h1121 == <<"1"," ","1"," ","2"," ","1">>
h1211 == <<"1"," ","2"," ","1"," ","1">>
XpmHeaders ==
    {h1111, h1121, h1211, <<"1"," ","1"," ","1">>, h1111 \o <<" ","1">>,
     <<"1"," ","1"," ","-","1"," ","1">>, <<"1"," ","-","1"," ","2"," ","1">>,
     <<"1"," ","x"," ","1"," ","1">>}

\* the lines that follow a bitmap header: palette lines (two for the token a),
\* a pixel row, a blank line, a comment line
PaletteA == Quoted(<<"a">> \o cSep \o <<"#","F">>)
PaletteA2 == Quoted(<<"a">> \o cSep \o hexNone)
PaletteB == Quoted(<<"b">> \o cSep \o hexTransparent)
RowAB == Quoted(<<"a","b">>)
XpmPool == {PaletteA, PaletteA2, RowAB, <<>>, <<";"," ","x">>}

\* a point whose DayXpm is followed by any of these lines, then by [end] lines
XpmFiles ==
    {<<Marker(sPoint), KeyValue(kDayXpm, Quoted(h))>> \o xs \o tail :
        h \in XpmHeaders, xs \in SeqsUpTo(XpmPool, MaxXpmLines),
        tail \in {<<>>, <<EndLine>>, <<EndLine, EndLine>>}}

\* a point whose bitmap has a blank line or a comment-only line, with ; or with #,
\* before its palette line and before its pixel row
SkipPool == {<<>>, <<<<" ">>>>, <<<<" ", ";", "x">>>>, <<<<"#", "x">>>>, <<<<" ", "#">>>>}
CommentedXpmFiles ==
    {<<Marker(sPoint), KeyValue(kDayXpm, Quoted(h1111))>> \o a \o <<PaletteA>> \o b
        \o <<Quoted(<<"a">>), EndLine>> : a \in SkipPool, b \in SkipPool}

\* a point whose bitmap has a ; or a # inside its quoted palette line or pixel row
CommentedRowFiles ==
    {<<Marker(sPoint), KeyValue(kDayXpm, Quoted(h1111)), Quoted(pal), Quoted(row), EndLine>> :
        pal \in {<<"a">> \o cSep \o <<"#","F">>, <<";">> \o cSep \o hexNone},
        row \in {<<"a">>, <<"a",";","b">>, <<"#","a">>}}

\* a point whose bitmap lacks its pixel row, closed by [end], and then a line section
ShortReadFiles ==
    {<<Marker(sPoint), KeyValue(kType, v0x2), KeyValue(kDayXpm, Quoted(h1111)), PaletteA,
       EndLine, Marker(sLine), KeyValue(kType, v0x1), EndLine>> \o tail :
        tail \in {<<>>, <<EndLine>>}}

\* the other bitmap keys, and a header that is not quoted
XpmKeyFiles ==
    {<<Marker(k[1]), KeyValue(k[2], h)>> \o xs \o <<EndLine>> :
        k \in {<<sPoint, kNightXpm>>, <<sLine, kXpm>>, <<sPolygon, kXpm>>,
               <<sLine, kNightXpm>>},
        h \in {Quoted(h1111), h1111, Quoted(<<"1"," ","x"," ","1"," ","1">>),
               Quoted(<<"1"," ","1">>)},
        xs \in {<<>>, <<PaletteB, RowAB>>}}

\* the lines of at most MaxLineLen of these characters, alone in a file
CleanAlphabet == {" ", ";", "#", "a"}
CleanFiles == {<<l>> : l \in SeqsUpTo(CleanAlphabet, MaxLineLen)}

\* testdata/sample/minimal.typ, with other numbers, codes and texts
MinimalFiles ==
    {<<Marker(sId), KeyValue(kCodePage, cp), KeyValue(kFID, fid), EndLine, <<>>,
       Marker(sPoint), KeyValue(kType, t), KeyValue(kString, lang \o <<",">> \o text), EndLine>> :
        cp \in {<<"1","2","5","2">>, <<"0">>}, fid \in {<<"1","2","3","4">>, <<"7">>},
        t \in {<<"0","x","2","f","0","6">>, v0x1}, lang \in {lang0x04, v0x01},
        text \in {<<"B","a","n","k">>, <<"C","i","t","y"," ","H","a","l","l">>}}

\* a point with a whole bitmap: a header, as many palette lines with distinct tokens
\* as it says, as many rows as it says (testdata/sample/basic.typ, smaller)
ScenarioBHeaders ==
    {[text |-> <<"2"," ","2"," ","2"," ","1">>, W |-> 2, H |-> 2, C |-> 2, P |-> 1],
     [text |-> h1111, W |-> 1, H |-> 1, C |-> 1, P |-> 1],
     [text |-> <<"3"," ","1"," ","2"," ","2">>, W |-> 3, H |-> 1, C |-> 2, P |-> 2]}

ScenarioBColours ==
    {[token |-> <<"a">>, colour |-> <<"#","F">>], [token |-> <<"a">>, colour |-> hexNone],
     [token |-> <<"b">>, colour |-> hexNone], [token |-> <<" ">>, colour |-> <<"#","0">>]}

ScenarioBRows == {<<"a","b">>, <<"b"," ">>}

ScenarioBPalettes(h) ==
    {pal \in [1..h.C -> ScenarioBColours] :
        \A i, j \in 1..h.C : pal[i].token = pal[j].token => i = j}

ScenarioBFile(h, pal, rows) ==
    <<Marker(sPoint), KeyValue(kDayXpm, Quoted(h.text))>>
    \o [i \in 1..h.C |-> Quoted(pal[i].token \o cSep \o pal[i].colour)]
    \o [i \in 1..h.H |-> Quoted(rows[i])]
    \o <<EndLine>>

ScenarioBFiles ==
    UNION {{ScenarioBFile(h, pal, rows) :
               pal \in ScenarioBPalettes(h), rows \in [1..h.H -> ScenarioBRows]} :
           h \in ScenarioBHeaders}

\* three sections with a type each, points, lines and polygons in any order
OrderSections ==
    {<<Marker(m), KeyValue(kType, t), EndLine>> :
        m \in {sPoint, sLine, sPolygon}, t \in {v0x1, v0x2}}
    \ {<<Marker(sPolygon), KeyValue(kType, v0x2), EndLine>>}

OrderFiles == {a \o b \o c : a \in OrderSections, b \in OrderSections, c \in OrderSections}

\* testdata/sample/basic.typ without its bitmap: a header, a point with two labels,
\* a line with widths and a style, a polygon
BasicFiles ==
    {<<Marker(sId), KeyValue(kCodePage, <<"1","2","5","2">>), EndLine,
       Marker(sPoint), KeyValue(kType, <<"0","x","2","f","0","6">>),
       KeyValue(kString, lang0x04 \o <<",">> \o <<"B","a","n","k">>),
       KeyValue(kString, v0x01 \o <<",">> \o <<"B","a","n","q","u","e">>), EndLine,
       Marker(sLine), KeyValue(kType, v0x01), KeyValue(kLineWidth, <<"4">>),
       KeyValue(kBorderWidth, <<"1">>), KeyValue(kLineStyle, <<"s","o","l","i","d">>), EndLine,
       Marker(sPolygon), KeyValue(kType, v0x01)>> \o more \o <<EndLine>> :
        more \in {<<>>, <<KeyValue(kString, lang0x04 \o <<",">> \o <<"P","a","r","k">>)>>}}

\* the files the editor is started on: a point with a bitmap of two colours and a
\* label, a line and a polygon; a header alone; a file that Parse rejects
EditorFiles ==
    {<<Marker(sPoint), KeyValue(kType, v0x1),
       KeyValue(kString, lang0x04 \o <<",">> \o <<"B">>),
       KeyValue(kDayXpm, Quoted(<<"1"," ","1"," ","2"," ","1">>)),
       Quoted(<<"a">> \o cSep \o <<"#","F">>), Quoted(<<"b">> \o cSep \o hexNone),
       Quoted(<<"a">>), EndLine,
       Marker(sLine), KeyValue(kType, v0x2), KeyValue(kLineWidth, <<"4">>), EndLine,
       Marker(sPolygon), KeyValue(kType, v0x1), EndLine,
       Marker(sPolygon), KeyValue(kType, v0x2), EndLine>>,
     <<Marker(sId), KeyValue(kCodePage, <<"1">>), EndLine>>,
     <<Marker(sId), KeyValue(kCodePage, <<"x">>), EndLine>>}

Files == GenFiles \cup SectionFiles \cup XpmFiles \cup XpmKeyFiles \cup CleanFiles
         \cup MinimalFiles \cup ScenarioBFiles \cup OrderFiles \cup BasicFiles
         \cup CommentedXpmFiles \cup CommentedRowFiles \cup ShortReadFiles

\* files read from a disk on which a read can fail
FaultyFiles ==
    {<<Marker(sPoint), KeyValue(kType, v0x1), EndLine>>,
     <<Marker(sDrawOrder), KeyValue(kType, v0x1)>>,
     <<Marker(sPolygon), KeyValue(kXpm, Quoted(h1111)), PaletteA, RowAB, EndLine>>}

(***************************************************************************)
(* The run: ParseFile(input), then WriteFile of the document and ParseFile  *)
(* of the file written.  On the reliable disk the document is written to a *)
(* new temporary file; on the faulty disk any read and the write can fail, *)
(* and the document is written to a new file or over the file it was read  *)
(* from.  written is the content of the file at the path given to          *)
(* WriteFile (<<>>: no file), saved is what WriteFile returned.  doc is the *)
(* caller's typFile: <<>> until Parse has returned, then the document,     *)
(* which the caller can change before it writes it.                        *)
(***************************************************************************)

Init ==
    /\ \/ input \in Files /\ disk = "ok"
       \/ input \in FaultyFiles /\ disk = "faulty"
    /\ p = NewParser
    /\ doc = <<>>
    /\ written \in (IF disk = "faulty" THEN {<<>>, <<input>>} ELSE {<<>>})
    /\ saved = <<>>
    /\ reloaded = <<>>
    /\ model = <<>>
    /\ tea = <<>>

\* whether the read of the next line, or the write of the file, can fail
Fails == IF disk = "faulty" THEN BOOLEAN ELSE {FALSE}

\* typFile, err := ParseFile(path): the caller's document, once Parse has returned
Returned(q) == IF q.pc = "done" THEN q.ret.typFile ELSE <<>>

\* One action for each function that reads lines: a turn of its loop, which calls
\* Scan once
DoParse ==
    /\ p.pc = "Parse"
    /\ \E fail \in Fails : p' = Parse(p, Scan(p, input, fail))
    /\ doc' = Returned(p')
    /\ UNCHANGED <<input, disk, written, saved, reloaded, model, tea>>

DoParseHeader ==
    /\ p.pc = "parseHeader"
    /\ \E fail \in Fails : p' = parseHeader(p, Scan(p, input, fail))
    /\ doc' = Returned(p')
    /\ UNCHANGED <<input, disk, written, saved, reloaded, model, tea>>

DoParsePoint ==
    /\ p.pc = "parsePoint"
    /\ \E fail \in Fails : p' = parsePoint(p, Scan(p, input, fail))
    /\ doc' = Returned(p')
    /\ UNCHANGED <<input, disk, written, saved, reloaded, model, tea>>

DoParseLine ==
    /\ p.pc = "parseLine"
    /\ \E fail \in Fails : p' = parseLine(p, Scan(p, input, fail))
    /\ doc' = Returned(p')
    /\ UNCHANGED <<input, disk, written, saved, reloaded, model, tea>>

DoParsePolygon ==
    /\ p.pc = "parsePolygon"
    /\ \E fail \in Fails : p' = parsePolygon(p, Scan(p, input, fail))
    /\ doc' = Returned(p')
    /\ UNCHANGED <<input, disk, written, saved, reloaded, model, tea>>

DoParseDrawOrder ==
    /\ p.pc = "parseDrawOrder"
    /\ \E fail \in Fails : p' = parseDrawOrder(p, Scan(p, input, fail))
    /\ doc' = Returned(p')
    /\ UNCHANGED <<input, disk, written, saved, reloaded, model, tea>>

DoSkipToEnd ==
    /\ p.pc = "skipToEnd"
    /\ \E fail \in Fails : p' = skipToEnd(p, Scan(p, input, fail))
    /\ doc' = Returned(p')
    /\ UNCHANGED <<input, disk, written, saved, reloaded, model, tea>>

DoParseXPM ==
    /\ p.pc = "parseXPM"
    /\ \E fail \in Fails : p' = parseXPMLine(p, Scan(p, input, fail))
    /\ doc' = Returned(p')
    /\ UNCHANGED <<input, disk, written, saved, reloaded, model, tea>>

\* The values a caller stores in a record: those of the tests, and others an int or
\* a string field can hold
NewLineWidths == {10, -1}
NewBorderWidths == {2, 0}
NewLineStyles == {<<"d","a","s","h","e","d">>, <<"a","#","b">>}
NewSubTypes == {v0x01, <<>>}
NewFontStyles == {<<"L","a","r","g","e","F","o","n","t">>, <<"S","m","a","l","l","F","o","n","t">>, <<" ","x">>}
NewTexts == {<<"M","o","d","i","f","i","e","d"," ","B","a","n","k">>, <<"A",";","B">>, <<>>}

\* the document is the one Parse returned: the assignments below have not yet run
Unmodified == doc # <<>> /\ doc = p.ret.typFile /\ saved = <<>>

\* typFile.Lines[0].LineWidth = ..., BorderWidth, LineStyle, UseOrientation
DoSetLineProperties ==
    /\ Unmodified /\ input \in BasicFiles
    /\ Len(doc[1].Lines) > 0
    /\ \E w \in NewLineWidths, b \in NewBorderWidths, st \in NewLineStyles, o \in BOOLEAN :
          doc' = <<[doc[1] EXCEPT !.Lines[1].LineWidth = w, !.Lines[1].BorderWidth = b,
                                  !.Lines[1].LineStyle = st, !.Lines[1].UseOrientation = o]>>
    /\ UNCHANGED <<input, disk, p, written, saved, reloaded, model, tea>>

\* typFile.Points[0].SubType = ..., FontStyle
DoSetPointProperties ==
    /\ Unmodified /\ input \in BasicFiles
    /\ Len(doc[1].Points) > 0
    /\ \E st \in NewSubTypes, fs \in NewFontStyles :
          doc' = <<[doc[1] EXCEPT !.Points[1].SubType = st, !.Points[1].FontStyle = fs]>>
    /\ UNCHANGED <<input, disk, p, written, saved, reloaded, model, tea>>

\* typFile.Polygons[0].ExtendedLabels = ..., FontStyle
DoSetPolygonProperties ==
    /\ Unmodified /\ input \in BasicFiles
    /\ Len(doc[1].Polygons) > 0
    /\ \E el \in BOOLEAN, fs \in NewFontStyles :
          doc' = <<[doc[1] EXCEPT !.Polygons[1].ExtendedLabels = el,
                                  !.Polygons[1].FontStyle = fs]>>
    /\ UNCHANGED <<input, disk, p, written, saved, reloaded, model, tea>>

\* typFile.Points[0].Labels[code] = text, for a code the point has a label for
DoSetLabel ==
    /\ Unmodified /\ input \in BasicFiles
    /\ Len(doc[1].Points) > 0
    /\ \E code \in DOMAIN doc[1].Points[1].Labels, text \in NewTexts :
          doc' = <<[doc[1] EXCEPT !.Points[1].Labels = MapPut(@, code, text)]>>
    /\ UNCHANGED <<input, disk, p, written, saved, reloaded, model, tea>>

\* a WriteFile that records the path it wrote to in the document
DoWriteFileSetsPath ==
    /\ doc # <<>> /\ saved = <<>>
    /\ \E text \in WriteFile(doc[1]) : \E out \in osWriteFile(written, text, Fails) :
          written' = out.file /\ saved' = <<out.err>>
    /\ doc' = <<[doc[1] EXCEPT !.FilePath = pathTemp]>>
    /\ UNCHANGED <<input, disk, p, reloaded, model, tea>>

\* parser.WriteFile(typFile, filePath): the text is built, then os.WriteFile
DoWriteFile ==
    /\ doc # <<>> /\ saved = <<>>
    /\ \E text \in WriteFile(doc[1]) : \E out \in osWriteFile(written, text, Fails) :
          written' = out.file /\ saved' = <<out.err>>
    /\ UNCHANGED <<input, disk, p, doc, reloaded, model, tea>>

\* reloaded, err := parser.ParseFile(tempFile)
DoReload ==
    /\ saved = <<NoError>> /\ reloaded = <<>>
    /\ reloaded' = <<ParseFileAt(pathTemp, written[1])>>
    /\ UNCHANGED <<input, disk, p, doc, written, saved, model, tea>>

Next ==
    \/ DoParse
    \/ DoParseHeader
    \/ DoParsePoint
    \/ DoParseLine
    \/ DoParsePolygon
    \/ DoParseDrawOrder
    \/ DoSkipToEnd
    \/ DoParseXPM
    \/ DoSetLineProperties
    \/ DoSetPointProperties
    \/ DoSetPolygonProperties
    \/ DoSetLabel
    \/ DoWriteFile
    \/ DoReload

Spec == Init /\ [][Next]_vars

(***************************************************************************)
(* The editor's run: NewModel(filePath), Init, which starts the load of    *)
(* the file when there is a path, then Update for each message: the        *)
(* fileLoadedMsg, the keys, the window sizes.  tea is the runtime: the     *)
(* command that the last Update returned ("Quit" ends the program, as does *)
(* "panic"), whether the load is still running, and the number of keys     *)
(* and window sizes delivered.  written is the file at m.filePath, on a    *)
(* disk where any read and any write can fail.                             *)
(***************************************************************************)

\* the keys pressed
Keys ==
    {"q", "ctrl+c", "ctrl+s", "?", "tab", "shift+tab", "up", "down", "enter",
     "esc", "e", "x", "y", "n", "c", "backspace", "-", "#"}

\* the number of keys and window sizes of a session, and the window sizes sent
MaxMsgs == 5
WindowSizes == {<<80, 24>>}

EditorInit ==
    /\ input \in EditorFiles
    /\ disk = "faulty"
    /\ written = <<input>>
    /\ \E filePath \in {pathInput, ""} :
          /\ model = NewModel(filePath)
          /\ tea = [cmd |-> "nil", loading |-> filePath # "", msgs |-> 0]
    /\ p = NewParser
    /\ doc = <<>>
    /\ saved = <<>>
    /\ reloaded = <<>>

\* what loadFileCmd can send: the result of ParseFile, a read error on a faulty disk
FileLoadedMsgs ==
    {ParseFile(input)}
    \cup (IF disk = "faulty" THEN {[typFile |-> <<>>, err |-> ReadError]} ELSE {})

DoFileLoaded ==
    /\ tea.cmd = "nil" /\ tea.loading
    /\ \E msg \in FileLoadedMsgs : model' = UpdateFileLoaded(model, msg)
    /\ tea' = [tea EXCEPT !.loading = FALSE]
    /\ UNCHANGED <<input, disk, p, doc, written, saved, reloaded>>

DoKey ==
    /\ tea.cmd = "nil" /\ tea.msgs < MaxMsgs
    /\ \E key \in Keys : \E r \in UpdateKey(model, written, key, Fails) :
          /\ model' = r.m
          /\ written' = r.file
          /\ tea' = [tea EXCEPT !.cmd = r.cmd, !.msgs = @ + 1]
    /\ UNCHANGED <<input, disk, p, doc, saved, reloaded>>

DoWindowSize ==
    /\ tea.cmd = "nil" /\ tea.msgs < MaxMsgs
    /\ \E size \in WindowSizes : model' = UpdateWindowSize(model, size[1], size[2])
    /\ tea' = [tea EXCEPT !.msgs = @ + 1]
    /\ UNCHANGED <<input, disk, p, doc, written, saved, reloaded>>

EditorNext ==
    \/ DoFileLoaded
    \/ DoKey
    \/ DoWindowSize

EditorSpec == EditorInit /\ [][EditorNext]_vars

(***************************************************************************)
(* Properties                                                              *)
(***************************************************************************)

\* the bitmaps behind two pointers are both nil, or agree in width, height, colour
\* count, chars per pixel, palette and pixel rows
SameXpm(a, b) ==
    /\ (a = <<>>) = (b = <<>>)
    /\ a # <<>> /\ b # <<>> =>
          /\ a[1].Width = b[1].Width /\ a[1].Height = b[1].Height
          /\ a[1].Colors = b[1].Colors /\ a[1].CharsPerPixel = b[1].CharsPerPixel
          /\ a[1].Palette = b[1].Palette /\ a[1].Data = b[1].Data

\* two records agree in type code and labels
SameTypeAndLabels(a, b) == a.Type = b.Type /\ a.Labels = b.Labels

\* the equality the round trip promises: header fields, record counts, type codes,
\* labels and bitmaps
SameDocument(d, e) ==
    /\ d.Header = e.Header
    /\ Len(d.Points) = Len(e.Points)
    /\ Len(d.Lines) = Len(e.Lines)
    /\ Len(d.Polygons) = Len(e.Polygons)
    /\ \A i \in DOMAIN d.Points \cap DOMAIN e.Points :
          /\ SameTypeAndLabels(d.Points[i], e.Points[i])
          /\ SameXpm(d.Points[i].DayXpm, e.Points[i].DayXpm)
          /\ SameXpm(d.Points[i].NightXpm, e.Points[i].NightXpm)
    /\ \A i \in DOMAIN d.Lines \cap DOMAIN e.Lines :
          /\ SameTypeAndLabels(d.Lines[i], e.Lines[i])
          /\ SameXpm(d.Lines[i].DayXpm, e.Lines[i].DayXpm)
          /\ SameXpm(d.Lines[i].NightXpm, e.Lines[i].NightXpm)
    /\ \A i \in DOMAIN d.Polygons \cap DOMAIN e.Polygons :
          /\ SameTypeAndLabels(d.Polygons[i], e.Polygons[i])
          /\ SameXpm(d.Polygons[i].DayXpm, e.Polygons[i].DayXpm)
          /\ SameXpm(d.Polygons[i].NightXpm, e.Polygons[i].NightXpm)

\* C1: round trip. Once the document d that ParseFile returned (doc) has been written
\* and the written file parsed, that second parse has succeeded and its document
\* has the header values, record counts, type codes, labels and bitmaps of d.
C1_RoundTrip ==
    reloaded # <<>> =>
        /\ reloaded[1].err.kind = "nil"
        /\ reloaded[1].typFile # <<>>
        /\ SameDocument(doc[1], reloaded[1].typFile[1])

\* C2: whenever Parse has returned an error, the document it returned is nil;
\* the same holds of the parse of the written file.
C2_NilWithError ==
    /\ p.pc = "done" /\ p.ret.err.kind # "nil" => p.ret.typFile = <<>>
    /\ reloaded # <<>> /\ reloaded[1].err.kind # "nil" => reloaded[1].typFile = <<>>

\* Parse has returned an error after a point had been added to the document
C2_Witness ==
    p.pc = "done" /\ p.ret.err.kind = "ParseError" /\ Len(p.typFile.Points) > 0

\* the functions that parse a section: while one of them runs, the section is open
SectionPcs ==
    {"parseHeader", "parsePoint", "parseLine", "parsePolygon", "parseDrawOrder", "skipToEnd"}

\* the running function's next Scan meets the end of the input (step predicate)
EndOfInput == p.pos = Len(input) /\ ~p'.scanErr

\* the running function's next Scan reads a line (step predicate)
ReadsLine == p.pc # "done" /\ p.pos < Len(input) /\ ~p'.scanErr

\* the line that the next Scan reads
NextLine == input[p.pos + 1]

\* a logical line of the form Key=Value, its key and its value
IsKeyValue(l) == Contains(cleanLine(l), <<"=">>)
KeyOf(l) == TrimSpace(SubSeq(cleanLine(l), 1, Index(cleanLine(l), <<"=">>) - 1))
ValueOf(l) ==
    TrimSpace(SubSeq(cleanLine(l), Index(cleanLine(l), <<"=">>) + 1, Len(cleanLine(l))))

\* C3: if the input ends while a section is open ([_id], [_point], [_line],
\* [_polygon], [_drawOrder] or an unrecognized section), Parse returns a parse error
\* and no document (the end met inside a bitmap leaves the section open, and its
\* parser meets the end next); if it ends at top level, Parse succeeds.
C3_EndOfInput ==
    [][/\ p.pc \in SectionPcs /\ EndOfInput =>
             p'.pc = "done" /\ p'.ret.err.kind = "ParseError" /\ p'.ret.typFile = <<>>
       /\ p.pc = "parseXPM" /\ EndOfInput =>
             p'.pc \in {"parsePoint", "parseLine", "parsePolygon"} /\ p'.pos = p.pos
       /\ p.pc = "Parse" /\ EndOfInput =>
             p'.pc = "done" /\ p'.ret.err.kind = "nil" /\ p'.ret.typFile # <<>>]_vars

\* the next line gives a value that is no integer to one of these keys
BadNumber(keys) ==
    IsKeyValue(NextLine) /\ KeyOf(NextLine) \in keys /\ ~Atoi(ValueOf(NextLine)).ok

\* C4: a CodePage, FID, ProductCode or MapID line of [_id], or a LineWidth or
\* BorderWidth line of [_line], whose value is no integer makes Parse return no
\* document and a ParseError whose Line is the number of that line and whose
\* message names the key.
C4_NumericField ==
    [][ReadsLine /\ (\/ p.pc = "parseHeader"
                        /\ BadNumber({kCodePage, kFID, kProductCode, kMapID})
                     \/ p.pc = "parseLine" /\ BadNumber({kLineWidth, kBorderWidth}))
        => /\ p'.pc = "done"
           /\ p'.ret.typFile = <<>>
           /\ p'.ret.err.kind = "ParseError"
           /\ p'.ret.err.Line = p.pos + 1
           /\ p'.ret.err.Message = "invalid value for %s: %s"
           /\ p'.ret.err.Key = KeyOf(NextLine)]_vars

\* Parse has failed on FID=x, the third line of the file
C4_Witness ==
    /\ p.pc = "done" /\ p.ret.err.kind = "ParseError"
    /\ p.ret.err.Key = kFID /\ p.ret.err.Line = 3
    /\ Len(input) >= 3 /\ input[3] = KeyValue(kFID, <<"x">>)

\* the keys whose value is a bitmap header, in the section that function pc parses
BitmapKeys(pc) ==
    CASE pc = "parsePoint" -> {kDayXpm, kNightXpm}
      [] pc \in {"parseLine", "parsePolygon"} -> {kXpm}
      [] OTHER -> {}

\* the next line starts a bitmap in the open section
StartsBitmap == IsKeyValue(NextLine) /\ KeyOf(NextLine) \in BitmapKeys(p.pc)

\* a header of exactly four numbers, none negative
FourNaturals(value) ==
    LET parts == Fields(Trim(value, {"\""}))
    IN  /\ Len(parts) = 4
        /\ \A i \in 1..Len(parts) : Atoi(parts[i]).ok /\ Atoi(parts[i]).val >= 0

\* C5: a DayXpm, NightXpm or Xpm value that is not exactly four numbers, none
\* negative, makes Parse return an error and no document.
C5_BitmapHeader ==
    [][ReadsLine /\ StartsBitmap /\ ~FourNaturals(ValueOf(NextLine))
        => p'.pc = "done" /\ p'.ret.err.kind # "nil" /\ p'.ret.typFile = <<>>]_vars

\* inside a bitmap: a blank line or a ; line (skipped), a quoted line (counted)
XpmBodyLine(l) ==
    LET t == TrimSpace(l)
    IN  t = <<>> \/ HasPrefix(t, <<";">>) \/ HasPrefix(t, <<"\"">>)

QuotedLine(l) == HasPrefix(TrimSpace(l), <<"\"">>)

\* a quoted line without its quotes
Unquote(l) == Trim(TrimSpace(l), {"\""})

\* a palette line <token> c <colour>, and its token
HasColour(l) == Index(Unquote(l), cSep) # 0
TokenOf(l) == SubSeq(Unquote(l), 1, Index(Unquote(l), cSep) - 1)

\* parseXPM returns a bitmap to the section parser in this step: from its loop, or
\* at once when the header asks for no line (step predicate; no read fails)
XpmReturns ==
    /\ p'.pc \in {"parsePoint", "parseLine", "parsePolygon"}
    /\ ~p'.scanErr
    /\ \/ p.pc = "parseXPM"
       \/ p.pc = p'.pc /\ ReadsLine /\ StartsBitmap

\* the line of the header of the bitmap that returns
HeaderIndex ==
    IF p.pc = "parseXPM" THEN Max({i \in 1..p.pos : ~XpmBodyLine(input[i])}) ELSE p.pos + 1

\* the bitmap that the section parser has stored
StoredXpm ==
    LET key == KeyOf(input[HeaderIndex])
    IN  CASE p'.pc = "parsePoint" /\ key = kDayXpm -> p'.point.DayXpm[1]
          [] p'.pc = "parsePoint" /\ key = kNightXpm -> p'.point.NightXpm[1]
          [] p'.pc = "parseLine" -> p'.line.DayXpm[1]
          [] p'.pc = "parsePolygon" -> p'.polygon.DayXpm[1]

\* the quoted lines that follow line h, up to the first line that is neither quoted
\* nor blank nor a ; line
QuotedAfter(h) ==
    LET last == Max({j \in h..Len(input) : \A i \in (h + 1)..j : XpmBodyLine(input[i])})
    IN  {i \in (h + 1)..last : QuotedLine(input[i])}

\* the n-th of a set of line numbers
Nth(S, n) == CHOOSE x \in S : Cardinality({y \in S : y <= x}) = n

AtLeast0(n) == IF n > 0 THEN n ELSE 0

RecordPcs == {"parsePoint", "parseLine", "parsePolygon"}

\* the labels of the record that the function pc is building in q
LabelsOf(q, pc) ==
    CASE pc = "parsePoint" -> q.point.Labels
      [] pc = "parseLine" -> q.line.Labels
      [] pc = "parsePolygon" -> q.polygon.Labels

\* the labels of the record appended last by the function pc
AppendedLabels(q, pc) ==
    CASE pc = "parsePoint" -> q.typFile.Points[Len(q.typFile.Points)].Labels
      [] pc = "parseLine" -> q.typFile.Lines[Len(q.typFile.Lines)].Labels
      [] pc = "parsePolygon" -> q.typFile.Polygons[Len(q.typFile.Polygons)].Labels

\* a label line String, String1..String4 = code,text with a code; its code, its text
CodeOf(l) == TrimSpace(SubSeq(ValueOf(l), 1, Index(ValueOf(l), <<",">>) - 1))
TextOf(l) == TrimSpace(SubSeq(ValueOf(l), Index(ValueOf(l), <<",">>) + 1, Len(ValueOf(l))))
IsLabelLine(l) ==
    /\ IsKeyValue(l) /\ KeyOf(l) \in StringKeys
    /\ Index(ValueOf(l), <<",">>) # 0 /\ CodeOf(l) # <<>>

\* line 1 opens a record section, and the lines read after it hold no [end] and
\* start no bitmap: the section parser has read the lines 2..p.pos
OpenFromLine1 ==
    /\ p.pc \in RecordPcs /\ p.pos >= 1
    /\ HasPrefix(cleanLine(input[1]), <<"[">>)
    /\ TrimSpace(Trim(cleanLine(input[1]), {"[", "]"})) \in {sPoint, sLine, sPolygon}
    /\ \A i \in 2..p.pos :
          /\ cleanLine(input[i]) # EndLine
          /\ ~(IsKeyValue(input[i]) /\ KeyOf(input[i]) \in {kDayXpm, kNightXpm, kXpm})

CommentAt(l) == {i \in 1..Len(l) : l[i] \in {";", "#"}}
BeforeComment(l) == IF CommentAt(l) = {} THEN l ELSE SubSeq(l, 1, Min(CommentAt(l)) - 1)

\* r is s without the white space at its two ends
IsTrimOf(r, s) ==
    IF r = <<>> THEN \A j \in 1..Len(s) : IsSpace(s[j])
    ELSE /\ ~IsSpace(r[1]) /\ ~IsSpace(r[Len(r)])
         /\ \E k \in 0..(Len(s) - Len(r)) :
               /\ SubSeq(s, k + 1, k + Len(r)) = r
               /\ \A j \in (1..k) \cup ((k + Len(r) + 1)..Len(s)) : IsSpace(s[j])

\* comments that end a line
TrailingComments == {Comment, <<"#", "x">>}

\* what Scan returns when it reads the line l
ScannedLine(l) == [ok |-> TRUE, err |-> FALSE, text |-> l]

UnknownMarker(l) ==
    /\ HasPrefix(cleanLine(l), <<"[">>)
    /\ TrimSpace(Trim(cleanLine(l), {"[", "]"})) \notin
          {sId, sPoint, sLine, sPolygon, sDrawOrder, sEnd}

\* the lines of the input after line e
After(e) == SubSeq(input, e + 1, Len(input))

\* the first [end] line after line 1
FirstEnd == Min({i \in 2..Len(input) : cleanLine(input[i]) = EndLine})

\* C9: an unknown marker at top level starts the skipping, with no error; every
\* line read while skipping leaves the document as it is, and the skipping stops
\* at the first [end] line and at no other line. So for an input whose first line is
\* an unknown marker with an [end] line after it, Parse returns what it returns
\* for the lines after that [end]: the same document, and an error in the same
\* case.
C9_UnknownSection ==
    /\ [][/\ p.pc = "Parse" /\ ReadsLine /\ UnknownMarker(NextLine) =>
                p'.pc = "skipToEnd" /\ p'.typFile = p.typFile
          /\ p.pc = "skipToEnd" /\ ReadsLine =>
                /\ p'.typFile = p.typFile
                /\ p'.pc = IF cleanLine(NextLine) = EndLine THEN "Parse" ELSE "skipToEnd"]_vars
    /\ [](/\ p.pc = "done" /\ disk = "ok" /\ Len(input) >= 2
          /\ UnknownMarker(input[1])
          /\ \E i \in 2..Len(input) : cleanLine(input[i]) = EndLine
          => /\ p.ret.typFile = ParseFile(After(FirstEnd)).typFile
             /\ p.ret.err.kind = ParseFile(After(FirstEnd)).err.kind)

\* [foo], [_point], Type=0x1,2, [end]: the parse succeeds with no point
C9_Witness ==
    /\ p.pc = "done"
    /\ input = <<Marker(<<"f","o","o">>), Marker(sPoint), KeyValue(kType, v0x1 \o <<",","2">>),
                 EndLine>>
    /\ p.ret.err.kind = "nil"
    /\ p.ret.typFile = <<[TYPFile EXCEPT !.FilePath = pathInput]>>

\* the numbers that the decimal texts of the scenario stand for
ScenarioNumber(d) ==
    CASE d = <<"1","2","5","2">> -> 1252
      [] d = <<"0">> -> 0
      [] d = <<"1","2","3","4">> -> 1234
      [] d = <<"7">> -> 7

\* C10 (scenario A): for the file [_id], CodePage=cp, FID=fid, [end], a blank line,
\* [_point], Type=t, String=code,text, [end], Parse returns no error and a document
\* whose header has the numbers cp and fid and nothing else, with no line and no
\* polygon, and one point of type t whose only label is text, for code.
C10_ScenarioA ==
    p.pc = "done" /\ input \in MinimalFiles =>
        \E cp \in {<<"1","2","5","2">>, <<"0">>}, fid \in {<<"1","2","3","4">>, <<"7">>},
           t \in {<<"0","x","2","f","0","6">>, v0x1}, code \in {lang0x04, v0x01},
           text \in {<<"B","a","n","k">>, <<"C","i","t","y"," ","H","a","l","l">>} :
            /\ input = <<Marker(sId), KeyValue(kCodePage, cp), KeyValue(kFID, fid), EndLine,
                         <<>>, Marker(sPoint), KeyValue(kType, t),
                         KeyValue(kString, code \o <<",">> \o text), EndLine>>
            /\ p.ret.err.kind = "nil"
            /\ p.ret.typFile # <<>>
            /\ p.ret.typFile[1].Header =
                  [Header EXCEPT !.CodePage = ScenarioNumber(cp), !.FID = ScenarioNumber(fid)]
            /\ p.ret.typFile[1].Lines = <<>> /\ p.ret.typFile[1].Polygons = <<>>
            /\ Len(p.ret.typFile[1].Points) = 1
            /\ p.ret.typFile[1].Points[1].Type = t
            /\ DOMAIN p.ret.typFile[1].Points[1].Labels = {code}
            /\ p.ret.typFile[1].Points[1].Labels[code] = text

\* testdata/sample/minimal.typ: code page 1252, FID 1234, one point 0x2f06 with
\* the label Bank for 0x04
C10_Witness ==
    /\ p.pc = "done"
    /\ input = <<Marker(sId), KeyValue(kCodePage, <<"1","2","5","2">>),
                 KeyValue(kFID, <<"1","2","3","4">>), EndLine, <<>>, Marker(sPoint),
                 KeyValue(kType, <<"0","x","2","f","0","6">>),
                 KeyValue(kString, lang0x04 \o <<",","B","a","n","k">>), EndLine>>
    /\ p.ret.typFile # <<>>
    /\ p.ret.typFile[1].Header.CodePage = 1252
    /\ p.ret.typFile[1].Header.FID = 1234
    /\ p.ret.typFile[1].Points[1].Labels[lang0x04] = <<"B","a","n","k">>

\* C11 (scenario B): for a point whose DayXpm header "W H C P" is followed by C
\* palette lines "<token> c <colour>" with distinct tokens and by H rows, Parse
\* returns one point whose bitmap has the four numbers of the header, a palette
\* with exactly these tokens, each with the colour text of its line (none for
\* none), and the H rows in their order, without quotes.
C11_ScenarioB ==
    p.pc = "done" /\ input \in ScenarioBFiles =>
    \A h \in ScenarioBHeaders : \A pal \in ScenarioBPalettes(h) :
    \A rows \in [1..h.H -> ScenarioBRows] :
        input = ScenarioBFile(h, pal, rows) =>
            /\ p.ret.err.kind = "nil"
            /\ p.ret.typFile # <<>>
            /\ Len(p.ret.typFile[1].Points) = 1
            /\ p.ret.typFile[1].Points[1].NightXpm = <<>>
            /\ p.ret.typFile[1].Points[1].DayXpm # <<>>
            /\ \A x \in {p.ret.typFile[1].Points[1].DayXpm[1]} :
                  /\ x.Width = h.W /\ x.Height = h.H
                  /\ x.Colors = h.C /\ x.CharsPerPixel = h.P
                  /\ DOMAIN x.Palette = {pal[i].token : i \in 1..h.C}
                  /\ \A i \in 1..h.C : x.Palette[pal[i].token].Hex = pal[i].colour
                  /\ x.Data = rows

\* DayXpm="3 1 2 2" with the colours a -> #F and b -> none and the row "ab"
C11_Witness ==
    /\ p.pc = "done"
    /\ input = <<Marker(sPoint), KeyValue(kDayXpm, Quoted(<<"3"," ","1"," ","2"," ","2">>)),
                 Quoted(<<"a">> \o cSep \o <<"#","F">>), Quoted(<<"b">> \o cSep \o hexNone),
                 Quoted(<<"a","b">>), EndLine>>
    /\ p.ret.typFile # <<>>
    /\ p.ret.typFile[1].Points[1].DayXpm # <<>>
    /\ p.ret.typFile[1].Points[1].DayXpm[1].Width = 3
    /\ p.ret.typFile[1].Points[1].DayXpm[1].Palette[<<"b">>].Hex = hexNone
    /\ p.ret.typFile[1].Points[1].DayXpm[1].Data = <<<<"a","b">>>>

\* the keys that each section parser knows
KnownKeys(pc) ==
    CASE pc = "parseHeader" -> {kCodePage, kFID, kProductCode, kMapID}
      [] pc = "parsePoint" -> {kType, kSubType, kDayXpm, kNightXpm, kFontStyle} \cup StringKeys
      [] pc = "parseLine" ->
             {kType, kLineWidth, kBorderWidth, kLineStyle, kXpm, kUseOrientation} \cup StringKeys
      [] pc = "parsePolygon" -> {kType, kXpm, kExtendedLabels, kFontStyle} \cup StringKeys
      [] pc = "parseDrawOrder" -> {kType}

\* a logical line that is not [end] and has no =, or has a key that pc does not know
Anomaly(l, pc) ==
    /\ cleanLine(l) \notin {<<>>, EndLine}
    /\ ~IsKeyValue(l) \/ KeyOf(l) \notin KnownKeys(pc)

\* C12: when the parser of a known section ([_id], [_point], [_line], [_polygon],
\* [_drawOrder]) reads a line without = or with a key it does not know, the only
\* change is that one more line has been read: no error, the same section parser
\* goes on, and the header, the record being built and the document are as before.
C12_Tolerated ==
    [][/\ p.pc \in {"parseHeader", "parsePoint", "parseLine", "parsePolygon", "parseDrawOrder"}
       /\ ReadsLine /\ Anomaly(NextLine, p.pc)
       => p' = [p EXCEPT !.pos = p.pos + 1, !.lineNum = p.lineNum + 1]]_vars

\* a point section with the line junk and then Type=0x1: the type is read
C12_Witness ==
    /\ p.pc = "parsePoint" /\ p.pos = 3
    /\ input[2] = <<"j","u","n","k">>
    /\ input[3] = KeyValue(kType, v0x1)
    /\ p.point = [PointType EXCEPT !.Type = v0x1]

\* the places of the commas of a value
CommaAt(v) == {i \in 1..Len(v) : v[i] = ","}

\* C13: when a section parser reads a line String, String1..String4 = value:
\* if the value has no comma, parseString returns an empty code and an empty text,
\* and the step only counts the line (no error, labels and record unchanged); if it
\* has one, parseString returns the text before the first comma and the text after
\* it, each without the white space at its ends.
C13_ParseString ==
    [][p.pc \in RecordPcs /\ ReadsLine /\ IsKeyValue(NextLine) /\ KeyOf(NextLine) \in StringKeys =>
        \A v \in {ValueOf(NextLine)} :
            IF CommaAt(v) = {}
            THEN /\ parseString(v) = [langCode |-> <<>>, label |-> <<>>]
                 /\ p' = [p EXCEPT !.pos = p.pos + 1, !.lineNum = p.lineNum + 1]
            ELSE /\ IsTrimOf(parseString(v).langCode, SubSeq(v, 1, Min(CommaAt(v)) - 1))
                 /\ IsTrimOf(parseString(v).label, SubSeq(v, Min(CommaAt(v)) + 1, Len(v)))]_vars

\* a point section with String=A and then String=0x04,A: one label
C13_Witness ==
    /\ p.pc = "parsePoint" /\ p.pos = 3
    /\ input[2] = KeyValue(kString, <<"A">>)
    /\ input[3] = KeyValue(kString, lang0x04 \o <<",", "A">>)
    /\ DOMAIN p.point.Labels = {lang0x04}
    /\ p.point.Labels[lang0x04] = <<"A">>

\* the five label keys
LabelKeys == {kString, kString1, kString2, kString3, kString4}

\* the line l = "key=value" with another key
WithKey(l, key) == key \o SubSeq(l, Index(l, <<"=">>), Len(l))

\* C14: when the parser of a point, line or polygon section is about to read a
\* line whose key is one of String, String1, String2, String3, String4, it goes to
\* the same state (same record, same labels, no error) on that line with any other
\* of the five keys.
C14_LabelKeys ==
    (/\ p.pc \in RecordPcs /\ p.pos < Len(input)
     /\ IsKeyValue(input[p.pos + 1]) /\ KeyOf(input[p.pos + 1]) \in LabelKeys) =>
        \A key \in LabelKeys :
            Step(p, ScannedLine(WithKey(input[p.pos + 1], key)))
               = Step(p, ScannedLine(input[p.pos + 1]))

\* a line section with String4=0x04,A: the label A for 0x04
C14_Witness ==
    /\ p.pc = "parseLine" /\ p.pos = 2
    /\ input[2] = KeyValue(kString4, lang0x04 \o <<",", "A">>)
    /\ DOMAIN p.line.Labels = {lang0x04}
    /\ p.line.Labels[lang0x04] = <<"A">>

\* the numbers of a bitmap header
HeaderNumbers(value) ==
    [i \in 1..Len(Fields(Trim(value, {"\""}))) |-> Atoi(Fields(Trim(value, {"\""}))[i]).val]

\* the function that parses the section that the marker line l opens
OpenedBy(l) ==
    LET section == TrimSpace(Trim(cleanLine(l), {"[", "]"}))
    IN  IF ~HasPrefix(cleanLine(l), <<"[">>) THEN "Parse"
        ELSE CASE section = sPoint -> "parsePoint"
               [] section = sLine -> "parseLine"
               [] section = sPolygon -> "parsePolygon"
               [] OTHER -> "Parse"

\* the input is one record section with a bitmap that is cut short: the marker, a
\* bitmap key with a header of four naturals, fewer quoted lines than the header
\* asks for, and the [end] line of the section
ShortReadClosed ==
    /\ disk = "ok" /\ Len(input) >= 3
    /\ IsKeyValue(input[2]) /\ KeyOf(input[2]) \in BitmapKeys(OpenedBy(input[1]))
    /\ FourNaturals(ValueOf(input[2]))
    /\ \A i \in 3..(Len(input) - 1) : QuotedLine(input[i])
    /\ Len(input) - 3 < HeaderNumbers(ValueOf(input[2]))[2] + HeaderNumbers(ValueOf(input[2]))[3]
    /\ cleanLine(input[Len(input)]) = EndLine

\* C15: when parseXPM reads a line that is neither quoted nor blank nor a ; line
\* before it has read C+H quoted lines, it returns to the section parser, which
\* stores the bitmap built so far, with no error; and a record section whose
\* bitmap is cut short by the [end] line of the section parses with no error.
C15_ShortRead ==
    /\ [][p.pc = "parseXPM" /\ ReadsLine /\ ~XpmBodyLine(NextLine) =>
             p'.pc = p.caller /\ StoredXpm = p.xpm]_vars
    /\ [](p.pc = "done" /\ ShortReadClosed => p.ret.err.kind = "nil" /\ p.ret.typFile # <<>>)

\* a line that starts with [
IsBracket(l) == HasPrefix(l, <<"[">>)

\* n times the marker m and [end]
Sections(m, n) == [i \in 1..(2 * n) |-> IF i % 2 = 1 THEN Marker(m) ELSE EndLine]

\* the lines that follow the lines m of a text, in order
LinesAfter(text, m) ==
    LET at == {i \in 1..Len(text) : text[i] = m}
    IN  [k \in 1..Cardinality(at) |-> text[Nth(at, k) + 1]]

\* C16: in the text that WriteFile has written for a document, the lines that
\* start with [ are [_id], [end], then [_point], [end] once per point, then [_line],
\* [end] once per line, then [_polygon], [end] once per polygon; the Type lines
\* that follow the markers of a kind give the types of the records of that kind in
\* stored order; every [end] line is followed by a blank line.
C16_SectionOrder ==
    saved = <<NoError>> =>
        \A text \in {written[1]} : \A d \in {doc[1]} :
            /\ SelectSeq(text, IsBracket) =
                  <<Marker(sId), EndLine>> \o Sections(sPoint, Len(d.Points))
                  \o Sections(sLine, Len(d.Lines)) \o Sections(sPolygon, Len(d.Polygons))
            /\ LinesAfter(text, Marker(sPoint)) =
                  [k \in 1..Len(d.Points) |-> KeyValue(kType, d.Points[k].Type)]
            /\ LinesAfter(text, Marker(sLine)) =
                  [k \in 1..Len(d.Lines) |-> KeyValue(kType, d.Lines[k].Type)]
            /\ LinesAfter(text, Marker(sPolygon)) =
                  [k \in 1..Len(d.Polygons) |-> KeyValue(kType, d.Polygons[k].Type)]
            /\ \A i \in 1..Len(text) :
                  text[i] = EndLine => i < Len(text) /\ text[i + 1] = <<>>

\* the file of a point 0x2, a line 0x1 and a point 0x1, written: the two points in
\* their order, then the line
C16_Witness ==
    /\ input = <<Marker(sPoint), KeyValue(kType, v0x2), EndLine,
                 Marker(sLine), KeyValue(kType, v0x1), EndLine,
                 Marker(sPoint), KeyValue(kType, v0x1), EndLine>>
    /\ saved = <<NoError>>
    /\ written = << <<Marker(sId), EndLine, <<>>,
                      Marker(sPoint), KeyValue(kType, v0x2), EndLine, <<>>,
                      Marker(sPoint), KeyValue(kType, v0x1), EndLine, <<>>,
                      Marker(sLine), KeyValue(kType, v0x1), EndLine, <<>> >> >>

\* the lines of the [_id] section of a written text, its [end] left out
WrittenHeader(text) == SubSeq(text, 2, Min({i \in 1..Len(text) : text[i] = EndLine}) - 1)

\* the stored value of a header field
HeaderField(h, key) ==
    CASE key = kCodePage -> h.CodePage
      [] key = kFID -> h.FID
      [] key = kProductCode -> h.ProductCode
      [] key = kMapID -> h.MapID

\* C17: in the [_id] section that WriteFile has written, there is a line for the
\* key CodePage, FID, ProductCode or MapID if and only if the stored value of the
\* field is not 0, and that line is the key, =, and the value in decimal.
C17_HeaderFields ==
    saved = <<NoError>> =>
        \A lines \in {WrittenHeader(written[1])} : \A h \in {doc[1].Header} :
        \A key \in {kCodePage, kFID, kProductCode, kMapID} :
            /\ (\E i \in 1..Len(lines) : KeyOf(lines[i]) = key) <=> HeaderField(h, key) # 0
            /\ \A i \in 1..Len(lines) :
                  KeyOf(lines[i]) = key => lines[i] = KeyValue(key, FormatInt(HeaderField(h, key)))

\* C18: for the document that Parse has returned (doc), WriteFile can write one text
\* only, and the text it has written is that one: two writes of the document give
\* the same text.
C18_Deterministic ==
    /\ p.pc = "done" /\ p.ret.err.kind = "nil" =>
          Cardinality(WriteFile(doc[1])) = 1
    /\ saved = <<NoError>> => WriteFile(doc[1]) = {written[1]}

\* C19: the call of WriteFile, whether it returns nil or an error, leaves the
\* document as it was: header, points, lines, polygons with their labels and
\* bitmaps, draw order, FilePath and Modified (and the parser that returned it).
C19_DocumentUnchanged ==
    [][saved' # saved => doc' = doc /\ p' = p]_vars

\* WriteFile has failed for a document with one point, which is as Parse returned it
C19_Witness ==
    /\ saved = <<WriteError>>
    /\ doc # <<>>
    /\ doc[1] =
          [TYPFile EXCEPT !.FilePath = pathInput,
                          !.Points = <<[PointType EXCEPT !.Type = v0x1]>>]

\* C20: when WriteFile returns an error, the file at its path holds what it held
\* before the call, or the whole text of the document.
C20_AllOrNothing ==
    [][saved = <<>> /\ saved' # <<>> /\ saved'[1].kind # "nil" =>
          \/ written' = written
          \/ \E text \in WriteFile(doc[1]) : written' = <<text>>]_vars

\* the properties of a line, a point and a polygon that the tests set and read back
SameLineProperties(a, b) ==
    /\ a.LineWidth = b.LineWidth /\ a.BorderWidth = b.BorderWidth
    /\ a.LineStyle = b.LineStyle /\ a.UseOrientation = b.UseOrientation

SamePointProperties(a, b) == a.SubType = b.SubType /\ a.FontStyle = b.FontStyle

SamePolygonProperties(a, b) ==
    a.ExtendedLabels = b.ExtendedLabels /\ a.FontStyle = b.FontStyle

\* C21: once a document whose first line has new LineWidth, BorderWidth, LineStyle
\* and UseOrientation, whose first point has new SubType and FontStyle, or whose
\* first polygon has new ExtendedLabels and FontStyle has been written and the
\* written file parsed, the parse has succeeded and the first line, point and
\* polygon it returns have exactly the values of the document.
C21_FieldsSurvive ==
    reloaded # <<>> /\ input \in BasicFiles =>
        /\ reloaded[1].err.kind = "nil"
        /\ reloaded[1].typFile # <<>>
        /\ \A d \in {doc[1]} : \A r \in {reloaded[1].typFile[1]} :
              /\ Len(r.Lines) = 1 /\ Len(r.Points) = 1 /\ Len(r.Polygons) = 1
              /\ SameLineProperties(d.Lines[1], r.Lines[1])
              /\ SamePointProperties(d.Points[1], r.Points[1])
              /\ SamePolygonProperties(d.Polygons[1], r.Polygons[1])

\* the values of the tests do survive: LineWidth 10, BorderWidth 2, LineStyle dashed,
\* UseOrientation true; SubType 0x01, FontStyle LargeFont; ExtendedLabels true,
\* FontStyle SmallFont
TestValues(d) ==
    \/ d.Lines[1].LineWidth = 10 /\ d.Lines[1].BorderWidth = 2
       /\ d.Lines[1].LineStyle = <<"d","a","s","h","e","d">> /\ d.Lines[1].UseOrientation
    \/ d.Points[1].SubType = v0x01
       /\ d.Points[1].FontStyle = <<"L","a","r","g","e","F","o","n","t">>
    \/ d.Polygons[1].ExtendedLabels
       /\ d.Polygons[1].FontStyle = <<"S","m","a","l","l","F","o","n","t">>

\* the values of the tests are read back as they were set
TestValuesSurvive ==
    reloaded # <<>> /\ input \in BasicFiles /\ TestValues(doc[1]) =>
        /\ reloaded[1].typFile # <<>>
        /\ SameLineProperties(doc[1].Lines[1], reloaded[1].typFile[1].Lines[1])
        /\ SamePointProperties(doc[1].Points[1], reloaded[1].typFile[1].Points[1])
        /\ SamePolygonProperties(doc[1].Polygons[1], reloaded[1].typFile[1].Polygons[1])

\* C22: once a document in which the label of a language code of the first point
\* has a new text has been written and the written file parsed, the parse has
\* succeeded, the point it returns has exactly the texts of the document for its
\* codes, and the header and the numbers of points, lines and polygons are those of
\* the document.
C22_LabelSurvives ==
    reloaded # <<>> /\ input \in BasicFiles =>
        /\ reloaded[1].err.kind = "nil"
        /\ reloaded[1].typFile # <<>>
        /\ \A d \in {doc[1]} : \A r \in {reloaded[1].typFile[1]} :
              /\ r.Header = d.Header
              /\ Len(r.Points) = Len(d.Points) /\ Len(r.Lines) = Len(d.Lines)
              /\ Len(r.Polygons) = Len(d.Polygons)
              /\ \A code \in DOMAIN d.Points[1].Labels :
                    /\ code \in DOMAIN r.Points[1].Labels
                    /\ r.Points[1].Labels[code] = d.Points[1].Labels[code]

\* the text of the test, Modified Bank, is read back for the code it was set for
TestTextSurvives ==
    reloaded # <<>> /\ input \in BasicFiles =>
        \A code \in DOMAIN doc[1].Points[1].Labels :
            doc[1].Points[1].Labels[code] =
                <<"M","o","d","i","f","i","e","d"," ","B","a","n","k">>
            => /\ reloaded[1].typFile # <<>>
               /\ reloaded[1].typFile[1].Points[1].Labels[code] = doc[1].Points[1].Labels[code]
               /\ reloaded[1].typFile[1].Header = doc[1].Header

\* the steps of Parse and of the functions it calls
ParseNext ==
    \/ DoParse
    \/ DoParseHeader
    \/ DoParsePoint
    \/ DoParseLine
    \/ DoParsePolygon
    \/ DoParseDrawOrder
    \/ DoSkipToEnd
    \/ DoParseXPM

\* Parse is one sequential call on its caller's goroutine, with no cancellation and
\* nothing to wait for but the read of the next line: while it has not returned,
\* it takes its next step.
ParseFairness == WF_vars(ParseNext)

\* A step of ParseNext is possible exactly while Parse has not returned
\* (StepPossible below), so ParseFairness says that Parse has returned again and
\* again or steps again and again; it is stated in that form, which needs no
\* evaluation of ENABLED.
FairSpec ==
    Init /\ [][Next]_vars /\ ([]<>(p.pc = "done") \/ []<><<ParseNext>>_vars)

\* while Parse has not returned, its next step exists and changes the parser
StepPossible == p.pc # "done" => \A fail \in Fails : Step(p, Scan(p, input, fail)) # p

\* C23: from any state in which Parse has not returned (at top level, in a section,
\* in a bitmap) it eventually returns; what it returns is a document with no error
\* or an error with no document; every step moves the scanner one line forward,
\* but for the steps at the end of the input or after a failed read, which read no
\* line and return from the running function, and none moves it back or past the
\* end, so no line is read twice.
C23_Terminates ==
    /\ (p.pc # "done") ~> (p.pc = "done")
    /\ [](p.pc = "done" => (p.ret.typFile = <<>>) = (p.ret.err.kind # "nil"))
    /\ [](p.pos <= Len(input))
    /\ []StepPossible
    /\ [][p' # p => \/ p'.pos = p.pos + 1
                    \/ /\ p'.pos = p.pos
                       /\ p.pos = Len(input) \/ p'.scanErr
                       /\ p'.pc # p.pc /\ p'.pc # "parseXPM"]_vars

\* Parse has returned a document after it read a whole bitmap in a section of a file
\* of six lines or more, each once
C23_Witness ==
    /\ p.pc = "done" /\ p.ret.err.kind = "nil"
    /\ p.pos = Len(input) /\ Len(input) >= 6
    /\ \E i \in DOMAIN p.typFile.Points : p.typFile.Points[i].DayXpm # <<>>

\* the keys with their aliases, and the two that ask to quit
AllKeys == Keys \cup {"k", "j", "Y", "N", "C", "s", "1"}
QuitKeys == {"q", "ctrl+c"}

\* the modes in which Update passes a key to the form or to the XPM editor
FormModes == {ModeEdit, ModeEditXPM}

\* the save that saveFile makes of the document of m has succeeded in r
SavedIn(m, r) ==
    /\ ~r.m.modified
    /\ m.typFile # <<>>
    /\ \E text \in WriteFile(m.typFile[1]) : r.file = <<text>>

Outcome(ret) == [typFile |-> ret.typFile, kind |-> ret.err.kind]

\* C25: when Parse itself (no section open) reads a line that is [end] once
\* cleaned, the step only counts the line: no error, no record, no header field,
\* and Parse goes on at top level; and a file with [end] put before its first
\* line parses to the same document, or fails with the same kind of error, as the
\* file without it.
C25_StrayEnd ==
    /\ [][p.pc = "Parse" /\ ReadsLine /\ cleanLine(NextLine) = EndLine
          => p' = [p EXCEPT !.pos = p.pos + 1, !.lineNum = p.lineNum + 1]]_vars
    /\ [](p.pc = "done" /\ disk = "ok"
          => Outcome(ParseFile(<<EndLine>> \o input)) = Outcome(p.ret))

\* a stray [end] before a point section and another after it, both read at top
\* level, and the parse has ended with the point and no error
C25_Witness ==
    /\ p.pc = "done" /\ p.ret.err.kind = "nil"
    /\ input = <<EndLine, Marker(sPoint), EndLine, EndLine>>
    /\ p.ret.typFile # <<>> /\ Len(p.ret.typFile[1].Points) = 1

\* a blank line, and a comment-only line: its first non-blank character is ; or #
IsBlankLine(l) == TrimSpace(l) = <<>>
IsSemicolonLine(l) == ~IsBlankLine(l) /\ TrimSpace(l)[1] = ";"
IsHashLine(l) == ~IsBlankLine(l) /\ TrimSpace(l)[1] = "#"
IsDataLine(l) == ~IsBlankLine(l) /\ ~IsSemicolonLine(l) /\ ~IsHashLine(l)

\* the file without its blank and comment-only lines
WithoutSkipLines(text) == SelectSeq(text, IsDataLine)

\* C26: a file with blank lines and comment-only lines (; or #) between the lines
\* of a bitmap parses to the same document as the file without these lines.
C26_SkippedInBitmap ==
    p.pc = "done" /\ input \in CommentedXpmFiles =>
        p.ret.typFile = ParseFile(WithoutSkipLines(input)).typFile

\* what holds: the same for every file with no comment-only line that starts
\* with #, the lines of bitmaps included
SemicolonSkipped ==
    p.pc = "done" /\ disk = "ok" /\ (\A i \in DOMAIN input : ~IsHashLine(input[i])) =>
        p.ret.typFile = ParseFile(WithoutSkipLines(input)).typFile

\* a bitmap with a blank or ; line between its lines has been parsed whole
SemicolonSkippedWitness ==
    /\ p.pc = "done" /\ p.ret.err.kind = "nil" /\ input \in CommentedXpmFiles
    /\ \E i \in DOMAIN input : IsSemicolonLine(input[i])
    /\ \A i \in DOMAIN input : ~IsHashLine(input[i])
    /\ Len(p.ret.typFile[1].Points[1].DayXpm[1].Data) = 1

\* the line has a ; or a #
HasCommentChar(l) == \E i \in DOMAIN l : l[i] \in {";", "#"}

\* C27: when parseXPM reads a quoted line that has a ; or a #, it uses the line cut
\* at that character, as cleanLine cuts it: the palette entry or the row that it
\* stores comes from the cut line.
C27_CutInBitmap ==
    [][p.pc = "parseXPM" /\ ReadsLine /\ QuotedLine(NextLine) /\ HasCommentChar(NextLine)
       => p' = parseXPMLine(p, ScannedLine(cleanLine(NextLine)))]_vars

\* what holds: the bitmap keeps the whole text between the quotes of each row and
\* the whole colour of each palette line
RowsKeptWhole ==
    p.pc = "done" /\ disk = "ok" /\ input \in CommentedRowFiles =>
        /\ p.ret.err.kind = "nil"
        /\ \A x \in {p.ret.typFile[1].Points[1].DayXpm[1]} :
              /\ x.Data = <<Unquote(input[4])>>
              /\ \A t \in DOMAIN x.Palette :
                    Unquote(input[3]) = t \o cSep \o x.Palette[t].Hex

\* a row with a ; inside has been stored whole
RowsKeptWholeWitness ==
    /\ p.pc = "done" /\ input \in CommentedRowFiles /\ input[4] = Quoted(<<"a",";","b">>)
    /\ p.ret.typFile[1].Points[1].DayXpm[1].Data = <<<<"a",";","b">>>>

\* a line Type=value, and the text before the first comma of its value
IsTypeLine(l) == IsKeyValue(l) /\ KeyOf(l) = kType
BeforeFirstComma(v) == SubSeq(v, 1, Min(CommaAt(v) \cup {Len(v) + 1}) - 1)

\* the type codes of the Type= lines of these lines, in their order
TypeCodes(text) ==
    LET sel == SelectSeq(text, IsTypeLine)
    IN  [i \in 1..Len(sel) |-> BeforeFirstComma(ValueOf(sel[i]))]

\* C28: a line Type=value read by parseDrawOrder appends the text before the first
\* comma of the value to DrawOrder.Points and any other line leaves DrawOrder as it
\* is; nothing else changes DrawOrder; DrawOrder.Lines and DrawOrder.Polygons stay
\* empty; so a file that is one [_drawOrder] section gives the codes of its Type=
\* lines in input order.
C28_DrawOrder ==
    /\ [][p.pc = "parseDrawOrder" /\ ReadsLine =>
            IF IsTypeLine(NextLine)
            THEN p'.typFile.DrawOrder.Points =
                    Append(p.typFile.DrawOrder.Points, BeforeFirstComma(ValueOf(NextLine)))
            ELSE p'.typFile.DrawOrder = p.typFile.DrawOrder]_vars
    /\ [][p.pc # "parseDrawOrder" \/ ~ReadsLine
            => p'.typFile.DrawOrder = p.typFile.DrawOrder]_vars
    /\ [](p.typFile.DrawOrder.Lines = <<>> /\ p.typFile.DrawOrder.Polygons = <<>>)
    /\ [](p.pc = "done" /\ disk = "ok" /\ input \in Section(sDrawOrder, DrawOrderPool)
            => /\ p.ret.err.kind = "nil"
               /\ p.ret.typFile[1].DrawOrder.Points = TypeCodes(input))

\* a section with Type=0x1,2 and Type=0x2 has given the codes 0x1 and 0x2
C28_Witness ==
    /\ p.pc = "done"
    /\ input = <<Marker(sDrawOrder), KeyValue(kType, v0x1 \o <<",","2">>),
                 KeyValue(kType, v0x2), EndLine>>
    /\ p.ret.typFile[1].DrawOrder.Points = <<v0x1, v0x2>>

\* the error that parseXPM returns for the header on the line that is read next
HeaderError == parseXPMHeader(ValueOf(NextLine), p.lineNum + 1).err

\* C29: every failure of Parse that is not a failure of the read arrives as a
\* ParseError with the number of the line where the parse stopped, and the error
\* that parseXPM returns for a bitmap header is the error that Parse returns.
C29_ErrorUnchanged ==
    /\ [](p.pc = "done" /\ p.ret.err.kind \notin {"nil", "ReadError"}
            => p.ret.err.kind = "ParseError" /\ p.ret.err.Line = p.lineNum)
    /\ [][ReadsLine /\ StartsBitmap /\ HeaderError.kind # "nil"
            => p'.pc = "done" /\ p'.ret.err = HeaderError]_vars

\* what holds: an error that does not come from a bitmap header is a ParseError
\* with the number of the line where the parse stopped
OtherErrorsCarryLine ==
    p.pc = "done" /\ p.ret.err.kind \notin {"nil", "ReadError", "NumError"} =>
        /\ p.ret.err.kind = "ParseError"
        /\ p.ret.err.Line = p.lineNum
        /\ p.ret.err.Line >= 1

\* the records of a document in the order WriteFile writes them
RecordsOf(d) == d.Points \o d.Lines \o d.Polygons

\* the lines of the k-th record section of a text, marker and [end] left out
RecordMarkers == {Marker(sPoint), Marker(sLine), Marker(sPolygon)}
SectionLines(text, k) ==
    LET start == Nth({i \in 1..Len(text) : text[i] \in RecordMarkers}, k)
        end   == Min({j \in (start + 1)..Len(text) : text[j] = EndLine})
    IN  SubSeq(text, start + 1, end - 1)

\* a line String=..., as written, and the line of one label
IsStringLine(l) == HasPrefix(l, kString \o <<"=">>)
LabelLine(labels, code) == KeyValue(kString, code \o <<",">> \o labels[code])

\* C30: in the text that WriteFile has written, the String= lines of each record
\* section are as many as the entries of the record's Labels, each entry is there
\* once as String=<code>,<text>, and the line of the code 0x04, when the record
\* has one, is the first of them.
C30_LabelOrder ==
    saved = <<NoError>> =>
        \A text \in {written[1]} : \A recs \in {RecordsOf(doc[1])} :
            \A k \in 1..Len(recs) :
                \A L \in {SelectSeq(SectionLines(text, k), IsStringLine)} :
                    \A labels \in {recs[k].Labels} :
                        /\ Len(L) = Cardinality(DOMAIN labels)
                        /\ \A code \in DOMAIN labels :
                              Cardinality({i \in 1..Len(L) : L[i] = LabelLine(labels, code)}) = 1
                        /\ lang0x04 \in DOMAIN labels => L[1] = LabelLine(labels, lang0x04)

\* a point whose label for another code came before its label for 0x04 in the
\* input has been written
C30_Witness ==
    /\ saved = <<NoError>> /\ Len(doc[1].Points) > 0
    /\ lang0x04 \in DOMAIN doc[1].Points[1].Labels
    /\ Cardinality(DOMAIN doc[1].Points[1].Labels) >= 2
    /\ \E i \in 1..Len(input) : \E j \in (i + 1)..Len(input) :
          /\ IsLabelLine(input[i]) /\ CodeOf(input[i]) # lang0x04
          /\ IsLabelLine(input[j]) /\ CodeOf(input[j]) = lang0x04

\* the bitmaps of the k-th record that are not nil, each with the key it is
\* written under: DayXpm for a point, Xpm for a line or a polygon, and NightXpm
BitmapsOf(d, k) ==
    LET rec == RecordsOf(d)[k]
        day == IF k <= Len(d.Points) THEN kDayXpm ELSE kXpm
    IN  (IF rec.DayXpm # <<>> THEN {[key |-> day, xpm |-> rec.DayXpm[1]]} ELSE {})
        \cup (IF rec.NightXpm # <<>> THEN {[key |-> kNightXpm, xpm |-> rec.NightXpm[1]]} ELSE {})

\* the header line of a bitmap, from its four fields
HeaderLine(key, x) ==
    key \o <<"=">> \o Quoted(FormatInt(x.Width) \o <<" ">> \o FormatInt(x.Height) \o <<" ">>
                              \o FormatInt(x.Colors) \o <<" ">> \o FormatInt(x.CharsPerPixel))

\* the line of the palette entry of a token
PaletteLine(x, t) ==
    Quoted(t \o cSep \o (IF x.Palette[t].Hex \in {hexNone, hexTransparent}
                         THEN hexNone ELSE x.Palette[t].Hex))

\* C31: in the text that WriteFile has written, every bitmap of a record that is
\* not nil has one line <key>="W H C P" made of its four fields in its record's
\* section; the lines after it are one quoted line per palette entry, each entry
\* once (none for a colour none or transparent), then the pixel rows, quoted, in
\* stored order; the line after the last of them is not quoted.
C31_BitmapEmission ==
    saved = <<NoError>> =>
        \A text \in {written[1]} : \A d \in {doc[1]} :
            \A k \in 1..Len(RecordsOf(d)) : \A S \in {SectionLines(text, k)} :
                \A f \in BitmapsOf(d, k) :
                    \A c \in {Cardinality(DOMAIN f.xpm.Palette)} : \A h \in {Len(f.xpm.Data)} :
                        /\ Cardinality({i \in 1..Len(S) : HasPrefix(S[i], f.key \o <<"=">>)}) = 1
                        /\ \E i \in 1..Len(S) :
                              /\ S[i] = HeaderLine(f.key, f.xpm)
                              /\ i + c + h <= Len(S)
                              /\ \A t \in DOMAIN f.xpm.Palette :
                                    Cardinality({j \in (i + 1)..(i + c) :
                                                    S[j] = PaletteLine(f.xpm, t)}) = 1
                              /\ \A r \in 1..h : S[i + c + r] = Quoted(f.xpm.Data[r])
                              /\ i + c + h < Len(S) => ~HasPrefix(S[i + c + h + 1], <<"\"">>)

\* a point whose bitmap has two palette entries and a row has been written
C31_Witness ==
    /\ saved = <<NoError>> /\ Len(doc[1].Points) = 1
    /\ doc[1].Points[1].DayXpm # <<>>
    /\ Cardinality(DOMAIN doc[1].Points[1].DayXpm[1].Palette) = 2
    /\ Len(doc[1].Points[1].DayXpm[1].Data) = 1

\* C32: when parseXPM reads a line that is neither quoted nor blank nor a ; line,
\* the bitmap ends and the section parser that called it processes that line, as
\* if it had read the line itself; so a point whose incomplete bitmap is followed
\* by [end] is closed there and the line section after it gives a line.
C32_EndingLineKept ==
    /\ [][p.pc = "parseXPM" /\ ReadsLine /\ ~XpmBodyLine(NextLine)
          => p' = Step(returnXPM(p), ScannedLine(NextLine))]_vars
    /\ [](p.pc = "done" /\ input \in ShortReadFiles
          => /\ p.ret.err.kind = "nil"
             /\ Len(p.ret.typFile[1].Points) = 1 /\ p.ret.typFile[1].Points[1].Type = v0x2
             /\ Len(p.ret.typFile[1].Lines) = 1 /\ p.ret.typFile[1].Lines[1].Type = v0x1)

\* what holds: the line that ends the bitmap is counted and dropped, and the
\* section parser goes on with the line after it
EndingLineDropped ==
    [][p.pc = "parseXPM" /\ ReadsLine /\ ~XpmBodyLine(NextLine)
       => p' = [returnXPM(p) EXCEPT !.pos = p.pos + 1, !.lineNum = p.lineNum + 1]]_vars

\* the point of such a file has taken the type of the line section, and no line
\* has been stored
EndingLineDroppedWitness ==
    /\ p.pc = "done" /\ input \in ShortReadFiles /\ p.ret.typFile # <<>>
    /\ Len(p.ret.typFile[1].Points) = 1 /\ p.ret.typFile[1].Points[1].Type = v0x1
    /\ p.ret.typFile[1].Lines = <<>>

\* the section that a top-level line opens, once cleaned
SectionOf(l) == TrimSpace(Trim(cleanLine(l), {"[", "]"}))
OpensSection(l, section) == HasPrefix(cleanLine(l), <<"[">>) /\ SectionOf(l) = section

\* the three lists of records
RecordLists(q) == <<q.typFile.Points, q.typFile.Lines, q.typFile.Polygons>>

\* the types given after the markers of a section, as Type= lines
TypesAfter(text, section, recs) ==
    LinesAfter(text, Marker(section)) = [k \in 1..Len(recs) |-> KeyValue(kType, recs[k].Type)]

\* C33: a marker [_point], [_line] or [_polygon] read by Parse at top level opens
\* its section with a new record; the section parser leaves either with an error or
\* by appending that one record to the end of its list, the two other lists
\* unchanged; the lists change in no other step; so a file of sections of the three
\* kinds in any interleaving gives, in each list, the records in file order.
C33_FileOrder ==
    /\ [][p.pc = "Parse" /\ ReadsLine =>
            /\ OpensSection(NextLine, sPoint) => p'.pc = "parsePoint" /\ p'.point = PointType
            /\ OpensSection(NextLine, sLine) => p'.pc = "parseLine" /\ p'.line = LineType
            /\ OpensSection(NextLine, sPolygon) =>
                  p'.pc = "parsePolygon" /\ p'.polygon = PolygonType]_vars
    /\ [][p.pc \in RecordPcs /\ p'.pc \notin {p.pc, "parseXPM"} =>
            \/ p'.pc = "done" /\ p'.ret.err.kind # "nil"
            \/ /\ p'.pc = "Parse"
               /\ RecordLists(p') =
                    CASE p.pc = "parsePoint" ->
                           <<Append(p.typFile.Points, p.point), p.typFile.Lines,
                             p.typFile.Polygons>>
                      [] p.pc = "parseLine" ->
                           <<p.typFile.Points, Append(p.typFile.Lines, p.line),
                             p.typFile.Polygons>>
                      [] p.pc = "parsePolygon" ->
                           <<p.typFile.Points, p.typFile.Lines,
                             Append(p.typFile.Polygons, p.polygon)>>]_vars
    /\ [][RecordLists(p') # RecordLists(p) => p.pc \in RecordPcs /\ p'.pc = "Parse"]_vars
    /\ [](p.pc = "done" /\ disk = "ok" /\ input \in OrderFiles =>
            /\ p.ret.err.kind = "nil"
            /\ \A d \in {p.ret.typFile[1]} :
                  /\ TypesAfter(input, sPoint, d.Points)
                  /\ TypesAfter(input, sLine, d.Lines)
                  /\ TypesAfter(input, sPolygon, d.Polygons))

\* a point 0x2, a line 0x1 and a point 0x1 have been parsed: the points are 0x2
\* and 0x1 in this order, and there is one line
C33_Witness ==
    /\ p.pc = "done" /\ p.ret.err.kind = "nil"
    /\ input = <<Marker(sPoint), KeyValue(kType, v0x2), EndLine,
                 Marker(sLine), KeyValue(kType, v0x1), EndLine,
                 Marker(sPoint), KeyValue(kType, v0x1), EndLine>>
    /\ Len(p.ret.typFile[1].Points) = 2 /\ Len(p.ret.typFile[1].Lines) = 1
    /\ p.ret.typFile[1].Points[1].Type = v0x2 /\ p.ret.typFile[1].Points[2].Type = v0x1

\* C34: in every state of a parse lineNum is the number of lines read from the
\* input so far; a ParseError that ends the parse has the number of the line
\* that was just read, and, when the parse ends because the input has no more
\* line, the number of lines of the input.
C34_LineAccounting ==
    /\ [](p.lineNum = p.pos)
    /\ [][p.pc # "done" /\ p'.pc = "done" /\ p'.ret.err.kind = "ParseError" =>
            /\ p'.ret.err.Line = p'.lineNum
            /\ ReadsLine => p'.ret.err.Line = p.pos + 1
            /\ EndOfInput => p'.ret.err.Line = Len(input)]_vars

\* a parse has failed on its third line, in a section, with lines left to read
C34_Witness ==
    /\ p.pc = "done" /\ p.ret.err.kind = "ParseError"
    /\ p.ret.err.Line = 3 /\ p.pos = 3 /\ Len(input) > 3

\* the document that loadFileCmd gives for the input
Loaded == ParseFile(input).typFile

\* this step is a save of the document that succeeded
SaveSucceeded ==
    /\ model.typFile # <<>> /\ model'.typFile = model.typFile
    /\ model'.status = "File saved successfully"
    /\ \E text \in WriteFile(model.typFile[1]) : written' = <<text>>

\* a step after which modified is false starts with modified false and leaves
\* the document as it is, or saves the document, or loads it
KeepsDirtyFlag ==
    ~model'.modified =>
        \/ ~model.modified /\ model'.typFile = model.typFile
        \/ SaveSucceeded
        \/ tea.loading /\ ~tea'.loading

\* C35: every step of the editor after which modified is false leaves the
\* document as it was with modified false before, or is a save that succeeded, or
\* is the load; and while the file is the one that was loaded and modified is
\* false, the document is the one that was loaded.
C35_DirtyFlag ==
    /\ [][KeepsDirtyFlag]_vars
    /\ [](~model.modified /\ model.typFile # <<>> /\ written = <<input>>
            => model.typFile = Loaded)

\* what holds: the same for every step that does not start in XPM edit mode,
\* the Esc that leaves the edit form included
DirtyFlagOutsideXPM == [][model.mode # ModeEditXPM => KeepsDirtyFlag]_vars

\* the edit form, with a value typed, is left by Esc: the document and the flag
\* are as they were
FormEscKeepsDocument ==
    tea.cmd = "nil" /\ model.mode = ModeEdit =>
        \A r \in UpdateKey(model, written, "esc", Fails) :
            r.m.typFile = model.typFile /\ r.m.modified = model.modified /\ r.file = written

\* a value has been typed into the edit form of a document that is not modified
FormEscWitness ==
    /\ model.mode = ModeEdit /\ ~model.modified /\ model.typFile = Loaded
    /\ \E i \in DOMAIN model.inputs : Len(model.inputs[i].value) > 0
    /\ tea.msgs >= 3

(***************************************************************************)
(* C36: the selection of the editor.                                       *)
(***************************************************************************)

\* the records listed on the active tab: none while no document is loaded
ActiveList == IF model.typFile = <<>> THEN <<>> ELSE Records(model.typFile[1], model.activeTab)

\* C36: in every state the editor reaches by keys, window sizes and the loaded
\* file, selectedIdx is at least 0 and, when the list of the active tab is not
\* empty, less than its length; in the modes Detail, Edit and EditXPM a document
\* is loaded and selectedIdx is the index of a record of the active tab.
C36_Selection ==
    /\ model.selectedIdx >= 0
    /\ Len(ActiveList) > 0 => model.selectedIdx < Len(ActiveList)
    /\ model.mode \in {ModeDetail, ModeEdit, ModeEditXPM} =>
          model.typFile # <<>> /\ model.selectedIdx < Len(ActiveList)

\* the second polygon is selected and its edit form is open
C36_Witness ==
    /\ model.mode = ModeEdit /\ model.activeTab = TabPolygons
    /\ model.selectedIdx = 1 /\ Len(ActiveList) = 2

(***************************************************************************)
(* C37: the focus of the edit form.                                        *)
(***************************************************************************)

\* the field next to field f of n fields in either direction, with wrap-around
Neighbours(f, n) == {(f + 1) % n, (f + n - 1) % n}

\* C37: in Edit mode the form has at least one input and focusedField is the
\* index of one of them; a key that leaves the form open keeps the focus or
\* moves it to a neighbouring field, from the last field to the first and from
\* the first to the last; no key pressed in Edit mode indexes out of range.
C37_Focus ==
    /\ [](model.mode = ModeEdit =>
             /\ Len(model.inputs) > 0
             /\ 0 <= model.focusedField /\ model.focusedField < Len(model.inputs))
    /\ [][model.mode = ModeEdit /\ model'.mode = ModeEdit =>
             /\ Len(model'.inputs) = Len(model.inputs)
             /\ model'.focusedField \in
                   {model.focusedField} \cup Neighbours(model.focusedField, Len(model.inputs))]_vars
    /\ [][model.mode = ModeEdit => tea'.cmd # "panic"]_vars

\* shift+tab on the first field of the form just opened: the last field has the focus
C37_Witness ==
    /\ model.mode = ModeEdit /\ tea.msgs = 3
    /\ Len(model.inputs) > 1 /\ model.focusedField = Len(model.inputs) - 1

(***************************************************************************)
(* C38: y at the confirm-quit dialog when the save fails.                  *)
(***************************************************************************)

\* what Update returns for y when the save failed, and when it succeeded
SaveFailedShape(r) ==
    /\ r.cmd = "nil" /\ r.m.modified /\ r.m.mode = ModeList
    /\ r.m.status = "Error saving"
SavedAndQuitShape(r) ==
    /\ r.cmd = "Quit" /\ ~r.m.modified
    /\ r.m.status = "File saved successfully"

\* C38: at the confirm-quit dialog, for every outcome of the save that y starts,
\* Update returns the file as the save left it and, when the save failed, no
\* quit command, modified still true, the mode List and the error in the status;
\* it quits only when the save succeeded.  A step that ends with the save error
\* in the status never quits and never clears modified; and modified goes from
\* true to false only in a step that wrote the document to the file.
C38_SaveFailure ==
    /\ [](model.mode = ModeConfirmQuit /\ tea.cmd = "nil" =>
             \A key \in {"y", "Y"} :
                \A rs \in {UpdateKey(model, written, key, Fails)} :
                   /\ \A r \in rs : SaveFailedShape(r) \/ SavedAndQuitShape(r)
                   /\ \A s \in saveFile(model, written, Fails) :
                         \E r \in rs :
                            /\ r.file = s.file
                            /\ IF s.err.kind # "nil" THEN SaveFailedShape(r)
                               ELSE SavedAndQuitShape(r))
    /\ [][model.mode = ModeConfirmQuit /\ model'.status = "Error saving" =>
             tea'.cmd = "nil" /\ model'.modified /\ model'.mode = ModeList]_vars
    /\ [][model.modified /\ ~model'.modified => SaveSucceeded]_vars

\* the dialog is open on a changed document and the save that y starts can fail
\* with the file cut short
C38_Witness ==
    /\ model.mode = ModeConfirmQuit /\ model.modified /\ tea.cmd = "nil"
    /\ tea.msgs < MaxMsgs
    /\ \E s \in saveFile(model, written, Fails) :
          s.err.kind = "WriteError" /\ s.file # written
    /\ \E r \in UpdateKey(model, written, "y", Fails) : SaveFailedShape(r) /\ r.file # written

====
